---- MODULE Spec2Model ----
(***************************************************************************)
(* Training-load computation engine of the athlete dashboard:              *)
(*   - per-session scorers (TRIMP) of lib/training-metrics.ts, of          *)
(*     lib/workout-data.ts and of the workout service,                     *)
(*   - the daily aggregator calculateDailyTrimpValues,                     *)
(*   - the zone classifier getTrainingLoadZone,                            *)
(*   - the load functions calculateATL, calculateCTL, calculateTSB and     *)
(*     calculateRampRate, on values and on arrays held by reference,       *)
(*   - the two writers of table training_load: the training metrics        *)
(*     service and the upload function process-fit-file, one request at   *)
(*     a time, run again on unchanged workouts, and two at the same time,  *)
(*   - the component TrainingLoadChart.                                    *)
(*                                                                         *)
(* JavaScript numbers are modelled as records                              *)
(*   [k |-> "fin", n |-> numerator, d |-> denominator > 0]  (a rational)   *)
(*   [k |-> "nan"], [k |-> "inf", n |-> +1 / -1], [k |-> "undef"]          *)
(* with the arithmetic of IEEE doubles on NaN and the infinities.  -0 is   *)
(* identified with 0 (-0 === 0 in JavaScript).  Math.exp is evaluated in   *)
(* fixed point with four decimals; everything else is exact.               *)
(***************************************************************************)
EXTENDS Integers, Sequences, FiniteSets, TLC

VARIABLES
    sample,     \* the workout handed to a scorer
    call,       \* which scorer was called, and with which resting heart rate
    score,      \* the value the scorer returned
    workouts,   \* the workout list handed to calculateDailyTrimpValues
    now,        \* new Date().getTime() at the call, in hours
    days,       \* the window length argument
    impl,       \* which calculateDailyTrimpValues ran
    dailyTrimp, \* the returned daily series
    tsb,        \* getTrainingLoadZone argument
    ctl,        \* getTrainingLoadZone argument
    zone,       \* getTrainingLoadZone result
    series,     \* the array handed to calculateATL / calculateCTL / calculateRampRate
    loadCall,   \* which load function was called, and calculateTSB's arguments
    loadResult, \* the number it returned
    runs,       \* what each load of the dashboard so far computed
    heap,       \* the arrays in memory, by reference
    heapCall,   \* the last call on them: function, argument and returned value
    calendarDay, \* the current date, as a day number (UTC)
    profiles,   \* the user's row of table profiles, or NoRow
    workoutsTable,  \* the user's rows of table workouts, in insertion order
    training_load,  \* the user's rows of table training_load, by date
    storeCall,  \* the last request to a writer of training_load, and its outcome
    uploads,    \* the requests to process-fit-file in flight, each at its step
    chart       \* what TrainingLoadChart has rendered: its rows and its header

vars == <<sample, call, score, workouts, now, days, impl, dailyTrimp, tsb, ctl, zone,
          series, loadCall, loadResult, runs, heap, heapCall,
          calendarDay, profiles, workoutsTable, training_load, storeCall, uploads,
          chart>>

scoreVars == <<sample, call, score>>
dailyVars == <<workouts, now, days, impl, dailyTrimp>>
zoneVars  == <<tsb, ctl, zone>>
loadVars  == <<series, loadCall, loadResult, chart>>
repeatVars == <<runs>>
heapVars  == <<heap, heapCall>>
storeVars == <<calendarDay, profiles, workoutsTable, training_load, storeCall, uploads>>

\* what a call of one group of functions leaves alone
scoreFrame == <<dailyVars, zoneVars, loadVars, repeatVars, heapVars, storeVars>>
dailyFrame == <<scoreVars, zoneVars, loadVars, repeatVars, heapVars, storeVars>>
zoneFrame  == <<scoreVars, dailyVars, loadVars, repeatVars, heapVars, storeVars>>
loadFrame  == <<scoreVars, dailyVars, zoneVars, repeatVars, heapVars, storeVars>>
repeatFrame == <<scoreVars, zoneVars, loadVars, heapVars, storeVars>>
heapFrame  == <<scoreVars, dailyVars, zoneVars, loadVars, repeatVars, storeVars>>
storeFrame == <<scoreVars, dailyVars, zoneVars, loadVars, repeatVars, heapVars>>

----------------------------------------------------------------------------
(* JavaScript numbers *)

RECURSIVE GCD(_, _)
GCD(a, b) == IF b = 0 THEN a ELSE GCD(b, a % b)

Abs(i) == IF i < 0 THEN -i ELSE i

\* the rational n/d (d # 0) in lowest terms with a positive denominator
Rat(n, d) ==
    LET g == GCD(Abs(n), Abs(d))
        s == IF d < 0 THEN -1 ELSE 1
    IN  [k |-> "fin", n |-> s * (n \div g), d |-> s * (d \div g)]

Num(i)    == [k |-> "fin", n |-> i, d |-> 1]
NaN       == [k |-> "nan", n |-> 0, d |-> 1]
PosInf    == [k |-> "inf", n |-> 1, d |-> 1]
NegInf    == [k |-> "inf", n |-> -1, d |-> 1]
Undefined == [k |-> "undef", n |-> 0, d |-> 1]

Inf(s) == IF s > 0 THEN PosInf ELSE NegInf

\* ToNumber: undefined converts to NaN
ToNumber(x) == IF x.k = "undef" THEN NaN ELSE x

Sgn(x) == IF x.n > 0 THEN 1 ELSE IF x.n < 0 THEN -1 ELSE 0

\* the global isNaN(x): ToNumber(x) is NaN
isNaN(x) == ToNumber(x).k = "nan"

IsFinite(x) == x.k = "fin"

\* truthiness of a number-or-undefined value: undefined, NaN and 0 are falsy
Truthy(x) == ~(x.k \in {"undef", "nan"}) /\ ~(x.k = "fin" /\ x.n = 0)

\* a || b
OrElse(a, b) == IF Truthy(a) THEN a ELSE b

Neg(x) ==
    LET a == ToNumber(x)
    IN  IF a.k = "nan" THEN NaN
        ELSE IF a.k = "inf" THEN Inf(-a.n)
        ELSE [k |-> "fin", n |-> -a.n, d |-> a.d]

Add(x, y) ==
    LET a == ToNumber(x)
        b == ToNumber(y)
    IN  IF a.k = "nan" \/ b.k = "nan" THEN NaN
        ELSE IF a.k = "inf" /\ b.k = "inf" THEN (IF a.n = b.n THEN a ELSE NaN)
        ELSE IF a.k = "inf" THEN a
        ELSE IF b.k = "inf" THEN b
        ELSE LET g == GCD(a.d, b.d)
             IN  Rat(a.n * (b.d \div g) + b.n * (a.d \div g), (a.d \div g) * b.d)

Sub(x, y) == Add(x, Neg(y))

Mul(x, y) ==
    LET a == ToNumber(x)
        b == ToNumber(y)
    IN  IF a.k = "nan" \/ b.k = "nan" THEN NaN
        ELSE IF a.k = "inf" \/ b.k = "inf"
             THEN (IF Sgn(a) * Sgn(b) = 0 THEN NaN ELSE Inf(Sgn(a) * Sgn(b)))
        ELSE LET g1 == GCD(Abs(a.n), b.d)
                 g2 == GCD(Abs(b.n), a.d)
             IN  Rat((a.n \div g1) * (b.n \div g2), (a.d \div g2) * (b.d \div g1))

\* x / y; a zero divisor is +0 wherever the modelled code divides
Div(x, y) ==
    LET a == ToNumber(x)
        b == ToNumber(y)
    IN  IF a.k = "nan" \/ b.k = "nan" THEN NaN
        ELSE IF a.k = "inf" /\ b.k = "inf" THEN NaN
        ELSE IF a.k = "inf" THEN (IF Sgn(b) < 0 THEN Inf(-a.n) ELSE a)
        ELSE IF b.k = "inf" THEN Num(0)
        ELSE IF b.n = 0 THEN (IF a.n = 0 THEN NaN ELSE Inf(Sgn(a)))
        ELSE Mul(a, Rat(b.d, b.n))

\* x < y; every comparison with NaN is false
Lt(x, y) ==
    LET a == ToNumber(x)
        b == ToNumber(y)
    IN  IF a.k = "nan" \/ b.k = "nan" THEN FALSE
        ELSE IF a.k = "inf" THEN a.n < 0 /\ b # a
        ELSE IF b.k = "inf" THEN b.n > 0
        ELSE LET g == GCD(a.d, b.d)
             IN  a.n * (b.d \div g) < b.n * (a.d \div g)

Gt(x, y) == Lt(y, x)

Le(x, y) ==
    LET a == ToNumber(x)
        b == ToNumber(y)
    IN  ~(a.k = "nan" \/ b.k = "nan") /\ ~Lt(b, a)

Ge(x, y) == Le(y, x)

\* Math.min(x, y)
MathMin(x, y) ==
    LET a == ToNumber(x)
        b == ToNumber(y)
    IN  IF a.k = "nan" \/ b.k = "nan" THEN NaN
        ELSE IF Lt(b, a) THEN b ELSE a

\* Math.floor(x)
MathFloor(x) ==
    LET a == ToNumber(x)
    IN  IF a.k = "fin" THEN Num(a.n \div a.d) ELSE a

\* Math.round(x): floor(x + 0.5); NaN and the infinities are returned as they are
MathRound(x) == MathFloor(Add(x, Rat(1, 2)))

\* round(a / b) for b > 0
DivRound(a, b) == (2 * a + b) \div (2 * b)

\* a * b / 10^6 for fixed-point values with six decimals, split so that no
\* intermediate product leaves the integer range
MulFix(a, b) ==
    LET a1 == a \div 1000
        a0 == a % 1000
        b1 == b \div 1000
        b0 == b % 1000
    IN  a1 * b1 + DivRound(a1 * b0 + a0 * b1 + DivRound(a0 * b0, 1000), 1000)

\* the Taylor series of exp(n/d) * 10^6 for |n/d| <= 1/2, from term number i on
RECURSIVE ExpTaylor(_, _, _, _)
ExpTaylor(n, d, i, term) ==
    IF term = 0 \/ i > 12 THEN 0
    ELSE term + ExpTaylor(n, d, i + 1, DivRound(term * n, d * (i + 1)))

\* exp(n/d) * 10^6: exp(x) = exp(x/2)^2 until |x| <= 1/2
RECURSIVE ExpFix(_, _)
ExpFix(n, d) ==
    IF 2 * Abs(n) <= d THEN ExpTaylor(n, d, 0, 1000000)
    ELSE LET h == ExpFix(n, 2 * d) IN MulFix(h, h)

\* Math.exp(x), to four decimals; overflows to Infinity above 709
MathExp(x) ==
    LET a == ToNumber(x)
    IN  IF a.k = "nan" THEN NaN
        ELSE IF a.k = "inf" THEN (IF a.n > 0 THEN PosInf ELSE Num(0))
        ELSE IF a.n > 709 * a.d THEN PosInf
        ELSE IF a.n < -745 * a.d THEN Num(0)
        ELSE Rat(DivRound(ExpFix(a.n, a.d), 100), 10000)

----------------------------------------------------------------------------
(* lib/training-metrics.ts: the per-session scorers *)

calculateTrimp(durationMinutes, avgHeartRate, restingHeartRate, maxHeartRate) ==
    IF \/ isNaN(durationMinutes)
       \/ isNaN(avgHeartRate)
       \/ isNaN(restingHeartRate)
       \/ isNaN(maxHeartRate)
       \/ Le(durationMinutes, Num(0))
       \/ Le(avgHeartRate, Num(0))
       \/ Le(restingHeartRate, Num(0))
       \/ Le(maxHeartRate, Num(0))
    THEN Num(0)
    ELSE LET hrr == Div(Sub(avgHeartRate, restingHeartRate),
                        Sub(maxHeartRate, restingHeartRate))
             genderFactor == Rat(192, 100)
             trimp == Mul(Mul(Mul(durationMinutes, hrr), Rat(64, 100)),
                          MathExp(Mul(genderFactor, hrr)))
         IN  IF isNaN(trimp) THEN Num(0) ELSE MathRound(trimp)

calculateTrimpFromPace(durationMinutes, distanceKm, elevationGainArg) ==
    LET elevationGain == IF elevationGainArg.k = "undef" THEN Num(0) ELSE elevationGainArg
    IN  IF \/ isNaN(durationMinutes)
           \/ isNaN(distanceKm)
           \/ isNaN(elevationGain)
           \/ Le(durationMinutes, Num(0))
           \/ Le(distanceKm, Num(0))
        THEN Num(0)
        ELSE LET paceMinPerKm == Div(durationMinutes, distanceKm)
                 intensityFactor ==
                     IF Lt(paceMinPerKm, Num(4)) THEN Rat(9, 10)
                     ELSE IF Lt(paceMinPerKm, Rat(45, 10)) THEN Rat(8, 10)
                     ELSE IF Lt(paceMinPerKm, Num(5)) THEN Rat(7, 10)
                     ELSE IF Lt(paceMinPerKm, Rat(55, 10)) THEN Rat(6, 10)
                     ELSE IF Lt(paceMinPerKm, Num(6)) THEN Rat(5, 10)
                     ELSE IF Lt(paceMinPerKm, Num(7)) THEN Rat(4, 10)
                     ELSE Rat(3, 10)
                 elevationFactor ==
                     IF Gt(elevationGain, Num(0))
                     THEN MathMin(Div(elevationGain, Num(1000)), Rat(2, 10))
                     ELSE Num(0)
                 trimp == Mul(durationMinutes, Add(intensityFactor, elevationFactor))
             IN  IF isNaN(trimp) THEN Num(0) ELSE MathRound(trimp)

----------------------------------------------------------------------------
(* lib/workout-data.ts: the scorers wired to training-metrics.            *)
(* A workout is a record; duration is in minutes, distance in km.         *)

WD_calculateTrimpFromHeartRate(workout) ==
    LET restingHeartRate == Num(60)
        maxHeartRate == Num(190)
    IN  calculateTrimp(workout.duration, workout.avgHeartRate, restingHeartRate,
                       OrElse(workout.maxHeartRate, maxHeartRate))

WD_calculateTrimpFromWorkout(workout) ==
    calculateTrimpFromPace(workout.duration, workout.distance, workout.elevationGain)

\* a selection on the presence of avgHeartRate instead of its truthiness
WD_workoutTrimp_ByPresence(workout) ==
    IF workout.avgHeartRate # Undefined
    THEN WD_calculateTrimpFromHeartRate(workout)
    ELSE WD_calculateTrimpFromWorkout(workout)

\* the scorer selection inside calculateDailyTrimpValues
WD_workoutTrimp(workout) ==
    IF Truthy(workout.avgHeartRate)
    THEN WD_calculateTrimpFromHeartRate(workout)
    ELSE WD_calculateTrimpFromWorkout(workout)

----------------------------------------------------------------------------
(* the workout service: its own scorers.  duration is in seconds, pace in *)
(* seconds per km; avg_heart_rate, max_heart_rate and elevation_gain are  *)
(* the record's avgHeartRate, maxHeartRate and elevationGain.             *)

Svc_calculateTrimpFromHeartRate(workout) ==
    LET maxHeartRate == OrElse(workout.maxHeartRate, Num(190))
        restingHeartRate == Num(60)
        hrr == Div(Sub(workout.avgHeartRate, restingHeartRate),
                   Sub(maxHeartRate, restingHeartRate))
        genderFactor == Rat(192, 100)
        durationMinutes == Div(workout.duration, Num(60))
        trimp == Mul(Mul(Mul(durationMinutes, hrr), Rat(64, 100)),
                     MathExp(Mul(genderFactor, hrr)))
    IN  IF isNaN(trimp) THEN Num(0) ELSE MathRound(trimp)

Svc_calculateTrimpFromPace(workout) ==
    LET paceMinPerKm == Div(workout.pace, Num(60))
        intensityFactor ==
            IF Lt(paceMinPerKm, Num(4)) THEN Rat(9, 10)
            ELSE IF Lt(paceMinPerKm, Rat(45, 10)) THEN Rat(8, 10)
            ELSE IF Lt(paceMinPerKm, Num(5)) THEN Rat(7, 10)
            ELSE IF Lt(paceMinPerKm, Rat(55, 10)) THEN Rat(6, 10)
            ELSE IF Lt(paceMinPerKm, Num(6)) THEN Rat(5, 10)
            ELSE IF Lt(paceMinPerKm, Num(7)) THEN Rat(4, 10)
            ELSE Rat(3, 10)
        elevationFactor ==
            IF Gt(workout.elevationGain, Num(0))
            THEN MathMin(Div(workout.elevationGain, Num(1000)), Rat(2, 10))
            ELSE Num(0)
        durationMinutes == Div(workout.duration, Num(60))
        trimp == Mul(durationMinutes, Add(intensityFactor, elevationFactor))
    IN  IF isNaN(trimp) THEN Num(0) ELSE MathRound(trimp)

Svc_calculateTrimpFromWorkout(workout) ==
    IF Truthy(workout.avgHeartRate)
    THEN Svc_calculateTrimpFromHeartRate(workout)
    ELSE Svc_calculateTrimpFromPace(workout)

----------------------------------------------------------------------------
(* Scoring one workout: the inputs and the four entry points *)

Durations      == {Num(-600), Num(0), Num(30), Num(600), NaN, PosInf, NegInf}
Distances      == {Num(0), Num(5), Num(8), NaN, PosInf}
Paces          == {Num(230), Num(300), NaN}
ElevationGains == {Num(-50), Num(100), Num(500), NaN, PosInf}
AvgHeartRates  == {Undefined, Num(0), Num(50), Num(125), Num(190), NaN, PosInf}
MaxHeartRates  == {Undefined, Num(50), Num(60), Num(190), NaN, PosInf}
RestingHeartRates == {Num(60), NaN, PosInf, NegInf}

Samples ==
    [duration : Durations, distance : Distances, pace : Paces,
     elevationGain : ElevationGains, avgHeartRate : AvgHeartRates,
     maxHeartRate : MaxHeartRates]

NoCall == [fn |-> "none", rest |-> Undefined]

ScoreIdle ==
    /\ sample = [duration |-> Num(0), distance |-> Num(0), pace |-> Num(0),
                 elevationGain |-> Num(0), avgHeartRate |-> Undefined,
                 maxHeartRate |-> Undefined]
    /\ call = NoCall
    /\ score = Undefined

DailyIdle ==
    /\ workouts = <<>>
    /\ now = 0
    /\ days = 0
    /\ impl = "none"
    /\ dailyTrimp = <<>>

ZoneIdle ==
    /\ tsb = Num(0)
    /\ ctl = Num(0)
    /\ zone = "none"

\* a JavaScript array reference: an array with its items, null or undefined
Arr(items)     == [ref |-> "array", items |-> items]
NullArray      == [ref |-> "null", items |-> <<>>]
UndefinedArray == [ref |-> "undefined", items |-> <<>>]

NoLoadCall == [fn |-> "none", ctl |-> Undefined, atl |-> Undefined]

NoChart == [timeRange |-> "none", chartData |-> <<>>]

LoadIdle ==
    /\ series = UndefinedArray
    /\ loadCall = NoLoadCall
    /\ loadResult = Undefined
    /\ chart = NoChart

RepeatIdle == runs = <<>>

NoHeapCall == [fn |-> "none", arg |-> 0, ret |-> [ref |-> 0, value |-> Undefined]]

HeapIdle ==
    /\ heap = <<>>
    /\ heapCall = NoHeapCall

\* a query that matched no row
NoRow == [found |-> FALSE]

NoStoreCall == [fn |-> "none", outcome |-> "none", before |-> <<>>]

StoreIdle ==
    /\ calendarDay = 0
    /\ profiles = NoRow
    /\ workoutsTable = <<>>
    /\ training_load = <<>>
    /\ storeCall = NoStoreCall
    /\ uploads = <<>>

\* the variables of every group of functions outside groups are at rest
IdleExcept(groups) ==
    /\ "score" \in groups \/ ScoreIdle
    /\ "daily" \in groups \/ DailyIdle
    /\ "zone" \in groups \/ ZoneIdle
    /\ "load" \in groups \/ LoadIdle
    /\ "repeat" \in groups \/ RepeatIdle
    /\ "heap" \in groups \/ HeapIdle
    /\ "store" \in groups \/ StoreIdle

ScoreInit ==
    /\ sample \in Samples
    /\ call = NoCall
    /\ score = Undefined
    /\ IdleExcept({"score"})

\* a direct call of training-metrics' calculateTrimp
CallCalculateTrimp ==
    /\ call = NoCall
    /\ \E r \in RestingHeartRates :
          /\ call' = [fn |-> "calculateTrimp", rest |-> r]
          /\ score' = calculateTrimp(sample.duration, sample.avgHeartRate, r,
                                     sample.maxHeartRate)
    /\ UNCHANGED <<sample, scoreFrame>>

\* a direct call of training-metrics' calculateTrimpFromPace
CallCalculateTrimpFromPace ==
    /\ call = NoCall
    /\ call' = [fn |-> "calculateTrimpFromPace", rest |-> Undefined]
    /\ score' = calculateTrimpFromPace(sample.duration, sample.distance,
                                       sample.elevationGain)
    /\ UNCHANGED <<sample, scoreFrame>>

\* the score workout-data's aggregator gives the workout
CallWorkoutDataScorer ==
    /\ call = NoCall
    /\ call' = [fn |-> "workout-data", rest |-> Num(60)]
    /\ score' = WD_workoutTrimp(sample)
    /\ UNCHANGED <<sample, scoreFrame>>

\* the score the workout service gives the workout
CallWorkoutServiceScorer ==
    /\ call = NoCall
    /\ call' = [fn |-> "workout-service", rest |-> Num(60)]
    /\ score' = Svc_calculateTrimpFromWorkout(sample)
    /\ UNCHANGED <<sample, scoreFrame>>

ScoreNext ==
    \/ CallCalculateTrimp
    \/ CallCalculateTrimpFromPace
    \/ CallWorkoutDataScorer
    \/ CallWorkoutServiceScorer

SpecScore == ScoreInit /\ [][ScoreNext]_vars

----------------------------------------------------------------------------
(* Claims about the per-session scorers (SpecScore) *)

Called == call.fn # "none"

\* the scorer ran on the heart-rate path
OnHeartRatePath ==
    \/ call.fn = "calculateTrimp"
    \/ call.fn \in {"workout-data", "workout-service"} /\ Truthy(sample.avgHeartRate)

\* the maximum heart rate the heart-rate path works with
UsedMaxHeartRate ==
    IF call.fn = "calculateTrimp" THEN sample.maxHeartRate
    ELSE OrElse(sample.maxHeartRate, Num(190))

Positive(x) == IsFinite(x) /\ x.n > 0

NonFinite(x) == x.k \in {"nan", "inf"}

\* C1: a workout whose duration is 0 or negative scores exactly 0, with every
\* scorer (training-metrics, workout-data, workout service), on both paths.
C1_NonPositiveDurationScoresZero ==
    (Called /\ Le(sample.duration, Num(0))) => score = Num(0)

\* C2: with a positive duration and positive heart rates the heart-rate scorers
\* return a number >= 0, also when the average or the maximum heart rate is
\* below the resting heart rate.
C2_ScoreNonNegative ==
    ( /\ call.fn \in {"calculateTrimp", "workout-data"}
      /\ OnHeartRatePath
      /\ Positive(sample.duration)
      /\ Positive(sample.avgHeartRate)
      /\ Positive(UsedMaxHeartRate)
      /\ Positive(call.rest) )
    => Ge(score, Num(0))

\* C3: when an argument of calculateTrimp or of calculateTrimpFromPace is NaN,
\* +Infinity or -Infinity, the scorer returns 0.
C3_NonFiniteScoresZero ==
    /\ ( /\ call.fn = "calculateTrimp"
         /\ \/ NonFinite(sample.duration)
            \/ NonFinite(sample.avgHeartRate)
            \/ NonFinite(sample.maxHeartRate)
            \/ NonFinite(call.rest) )
       => score = Num(0)
    /\ ( /\ call.fn = "calculateTrimpFromPace"
         /\ \/ NonFinite(sample.duration)
            \/ NonFinite(sample.distance)
            \/ NonFinite(sample.elevationGain) )
       => score = Num(0)

\* C4: on the heart-rate path, maxHR <= restingHR gives the score 0 for every
\* duration and every average heart rate.
C4_MaxNotAboveRestingScoresZero ==
    ( /\ Called
      /\ OnHeartRatePath
      /\ Le(UsedMaxHeartRate, call.rest) )
    => score = Num(0)

\* what the heart-rate path and the pace path of the called aggregator give
HeartRatePathScore ==
    IF call.fn = "workout-data" THEN WD_calculateTrimpFromHeartRate(sample)
    ELSE Svc_calculateTrimpFromHeartRate(sample)

PacePathScore ==
    IF call.fn = "workout-data" THEN WD_calculateTrimpFromWorkout(sample)
    ELSE Svc_calculateTrimpFromPace(sample)

ViaAggregator == call.fn \in {"workout-data", "workout-service"}

\* C22 as claimed: a workout that has an avgHeartRate value (whatever the
\* value) is scored on the heart-rate path, a workout without one on the
\* pace path.
C22_PresenceSelectsPath ==
    ViaAggregator =>
        score = IF sample.avgHeartRate # Undefined THEN HeartRatePathScore
                ELSE PacePathScore

\* C22: the path is selected by the truthiness of avgHeartRate: a value other
\* than 0 and NaN is scored on the heart-rate path and never by pace; a
\* missing value, 0 and NaN are scored on the pace path.
C22_TruthinessSelectsPath ==
    ViaAggregator =>
        score = IF sample.avgHeartRate \in {Undefined, Num(0), NaN}
                THEN PacePathScore
                ELSE HeartRatePathScore

\* an average heart rate of 125 scored by heart rate where the pace path
\* would have given another score
C22_Witness ==
    /\ call.fn = "workout-data"
    /\ sample.avgHeartRate = Num(125)
    /\ Positive(sample.duration)
    /\ score = HeartRatePathScore
    /\ score # PacePathScore

\* the scorer ran on the pace/elevation path
OnPacePath ==
    \/ call.fn = "calculateTrimpFromPace"
    \/ ViaAggregator /\ ~Truthy(sample.avgHeartRate)

\* the workout's duration in minutes (the service's records hold seconds)
DurationMinutes ==
    IF call.fn = "workout-service" THEN Div(sample.duration, Num(60))
    ELSE sample.duration

\* the step table of the pace path: the first threshold the pace is below
PaceFactor(pace) ==
    IF Lt(pace, Num(4)) THEN Rat(9, 10)
    ELSE IF Lt(pace, Rat(9, 2)) THEN Rat(8, 10)
    ELSE IF Lt(pace, Num(5)) THEN Rat(7, 10)
    ELSE IF Lt(pace, Rat(11, 2)) THEN Rat(6, 10)
    ELSE IF Lt(pace, Num(6)) THEN Rat(5, 10)
    ELSE IF Lt(pace, Num(7)) THEN Rat(4, 10)
    ELSE Rat(3, 10)

ElevationBonus(gain) ==
    IF Le(gain, Num(0)) THEN Num(0)
    ELSE MathMin(Div(gain, Num(1000)), Rat(2, 10))

\* C23: on the pace path, with duration > 0 and distance > 0 the score is
\* round(durationMinutes * (factor + bonus)), the factor taken from the step
\* table at pace = durationMinutes / distanceKm and bonus =
\* min(elevationGain / 1000, 0.2), 0 for a gain <= 0; with distance <= 0 the
\* score is 0.  (Stated for an elevation gain that is a number.)
C23_PacePathScore ==
    (OnPacePath /\ ~isNaN(sample.elevationGain)) =>
        /\ (Gt(DurationMinutes, Num(0)) /\ Gt(sample.distance, Num(0))) =>
               score = MathRound(Mul(DurationMinutes,
                          Add(PaceFactor(Div(DurationMinutes, sample.distance)),
                              ElevationBonus(sample.elevationGain))))
        /\ Le(sample.distance, Num(0)) => score = Num(0)

\* the workout service's record of the same workout: the duration in seconds,
\* the pace duration / distance in seconds per km
ServiceRecord(workout) ==
    [workout EXCEPT !.duration = Mul(workout.duration, Num(60)),
                    !.pace = Mul(Div(workout.duration, workout.distance), Num(60))]

\* C30: the two per-session scorers agree: the score the workout-service
\* scorer gives a workout equals the score the training-metrics scorers give
\* it as wired in workout-data, for the same duration in minutes, the same
\* pace (duration / distance), elevation gain and heart rates, also for a
\* non-positive duration, a zero distance and an average heart rate at or
\* below the resting heart rate.
C30_ScorersAgree ==
    call.fn = "workout-data" =>
        score = Svc_calculateTrimpFromWorkout(ServiceRecord(sample))

----------------------------------------------------------------------------
(* calculateDailyTrimpValues.  Dates and the clock are in hours; a workout *)
(* record carries its date as a number (NaN: an invalid Date).            *)

MaxDays == 2
MaxWorkouts == 2

\* 1000 * 60 * 60 * 24 ms, in hours
HoursPerDay == 24

\* Array(days).fill(0)
ZeroFilled(len) == [i \in 1..len |-> Num(0)]

\* the series left in the order it was filled (most recent day first)
Reverse_Omitted(seq) == seq

\* Array.prototype.reverse
Reverse(seq) == [i \in 1..Len(seq) |-> seq[Len(seq) + 1 - i]]

\* floor((today - date) / one day)
DayIndex(today, date) ==
    MathFloor(Div(Sub(Num(today), date), Num(HoursPerDay)))

\* the same without the dayIndex < days guard: writing past the end of a
\* JavaScript array extends it (undefined + trimp is NaN)
AddToDay_NoUpperGuard(daily, dayIndex, len, trimp) ==
    IF Ge(dayIndex, Num(0))
    THEN [i \in 1..(IF dayIndex.n + 1 > Len(daily) THEN dayIndex.n + 1 ELSE Len(daily)) |->
            IF i = dayIndex.n + 1
            THEN Add(IF i <= Len(daily) THEN daily[i] ELSE Undefined, trimp)
            ELSE IF i <= Len(daily) THEN daily[i] ELSE Undefined]
    ELSE daily

\* dailyTrimp[dayIndex] += trimp, guarded by 0 <= dayIndex < days
AddToDay(daily, dayIndex, len, trimp) ==
    IF Ge(dayIndex, Num(0)) /\ Lt(dayIndex, Num(len))
    THEN [daily EXCEPT ![dayIndex.n + 1] = Add(@, trimp)]
    ELSE daily

\* workout-data: the forEach over workouts[i..], in list order
RECURSIVE WD_forEach(_, _, _, _, _)
WD_forEach(list, i, today, len, daily) ==
    IF i > Len(list) THEN daily
    ELSE WD_forEach(list, i + 1, today, len,
                    AddToDay(daily, DayIndex(today, list[i].date), len,
                             WD_workoutTrimp(list[i])))

WD_calculateDailyTrimpValues(list, len, today) ==
    Reverse(WD_forEach(list, 1, today, len, ZeroFilled(len)))

\* workout service: the forEach over workouts[i..], in list order
RECURSIVE Svc_forEach(_, _, _, _, _)
Svc_forEach(list, i, today, len, daily) ==
    IF i > Len(list) THEN daily
    ELSE Svc_forEach(list, i + 1, today, len,
                     AddToDay(daily, DayIndex(today, list[i].date), len,
                              Svc_calculateTrimpFromWorkout(list[i])))

Svc_calculateDailyTrimpValues(list, len, today) ==
    Reverse(Svc_forEach(list, 1, today, len, ZeroFilled(len)))

\* the workouts the aggregator is run on: one without and one with heart-rate
\* data, dated on days 0 .. MaxDays + 1 at 06:00 and 18:00 or with an invalid
\* date; the call is made on day MaxDays
WorkoutBodies ==
    { [duration |-> Num(3000), distance |-> Num(5), pace |-> Num(600),
       elevationGain |-> Num(0), avgHeartRate |-> Undefined,
       maxHeartRate |-> Undefined],
      [duration |-> Num(60), distance |-> Num(10), pace |-> Num(360),
       elevationGain |-> Num(100), avgHeartRate |-> Num(125),
       maxHeartRate |-> Num(190)] }

WorkoutDates ==
    {Num(d * HoursPerDay + h) : d \in 0..(MaxDays + 1), h \in {6, 18}} \cup {NaN}

DatedWorkouts ==
    { [date |-> t, duration |-> b.duration, distance |-> b.distance,
       pace |-> b.pace, elevationGain |-> b.elevationGain,
       avgHeartRate |-> b.avgHeartRate, maxHeartRate |-> b.maxHeartRate] :
         t \in WorkoutDates, b \in WorkoutBodies }

CallTimes == {MaxDays * HoursPerDay + h : h \in {12, 23}}

DailyInit ==
    /\ workouts \in UNION {[1..n -> DatedWorkouts] : n \in 0..MaxWorkouts}
    /\ now \in CallTimes
    /\ days \in 1..MaxDays
    /\ impl = "none"
    /\ dailyTrimp = <<>>
    /\ IdleExcept({"daily"})

\* workout-data's calculateDailyTrimpValues(workouts, days)
CallWorkoutDataDaily ==
    /\ impl = "none"
    /\ impl' = "workout-data"
    /\ dailyTrimp' = WD_calculateDailyTrimpValues(workouts, days, now)
    /\ UNCHANGED <<workouts, now, days, dailyFrame>>

\* the workout service's calculateDailyTrimpValues(workouts, days)
CallWorkoutServiceDaily ==
    /\ impl = "none"
    /\ impl' = "workout-service"
    /\ dailyTrimp' = Svc_calculateDailyTrimpValues(workouts, days, now)
    /\ UNCHANGED <<workouts, now, days, dailyFrame>>

DailyNext ==
    \/ CallWorkoutDataDaily
    \/ CallWorkoutServiceDaily

SpecDaily == DailyInit /\ [][DailyNext]_vars

----------------------------------------------------------------------------
(* Claims about calculateDailyTrimpValues (SpecDaily) *)

Aggregated == impl # "none"

\* the score the implementation that ran gives a workout
ScoreOf(w) ==
    IF impl = "workout-data" THEN WD_workoutTrimp(w)
    ELSE Svc_calculateTrimpFromWorkout(w)

RECURSIVE SumScores(_)
SumScores(S) ==
    IF S = {} THEN Num(0)
    ELSE LET i == CHOOSE x \in S : TRUE
         IN  Add(ScoreOf(workouts[i]), SumScores(S \ {i}))

\* the workouts with floor((now - date) / 24h) = k
AgedDays(k) ==
    { i \in 1..Len(workouts) :
        /\ IsFinite(workouts[i].date)
        /\ k * HoursPerDay <= now - workouts[i].date.n
        /\ now - workouts[i].date.n < (k + 1) * HoursPerDay }

CalendarDay(t) == t \div HoursPerDay

\* the workouts dated on calendar day c
OnCalendarDay(c) ==
    { i \in 1..Len(workouts) :
        IsFinite(workouts[i].date) /\ CalendarDay(workouts[i].date.n) = c }

\* the workout is not in the future and less than days * 24h old
InsideWindow(i) ==
    /\ IsFinite(workouts[i].date)
    /\ workouts[i].date.n <= now
    /\ now - workouts[i].date.n < days * HoursPerDay

\* C5: the returned series has exactly days entries for every workout list;
\* with an empty list every entry is 0.
C5_LengthIsDays ==
    Aggregated =>
        /\ Len(dailyTrimp) = days
        /\ (workouts = <<>> => \A k \in 1..days : dailyTrimp[k] = Num(0))

\* C5 witness: a call with days = MaxDays on a full list holding a workout
\* older than the window
C5_Witness ==
    /\ Aggregated
    /\ days = MaxDays
    /\ Len(workouts) = MaxWorkouts
    /\ \E i \in 1..Len(workouts) :
          /\ IsFinite(workouts[i].date)
          /\ now - workouts[i].date.n >= days * HoursPerDay
    /\ \E k \in 1..days : dailyTrimp[k] # Num(0)

\* C6: two workouts dated on the same calendar day, both inside the window,
\* are summed into one entry of the series, which equals the sum of that
\* calendar day's scores: they are never split across two entries, whatever
\* the time of day of the workouts and of the call.
C6_SameCalendarDaySummed ==
    Aggregated =>
        \A i, j \in 1..Len(workouts) :
            ( /\ i # j
              /\ InsideWindow(i)
              /\ InsideWindow(j)
              /\ CalendarDay(workouts[i].date.n) = CalendarDay(workouts[j].date.n) )
            => \E k \in 1..days :
                  dailyTrimp[k] =
                      SumScores(OnCalendarDay(CalendarDay(workouts[i].date.n)))

\* C7: entry days-1-k (counted from 0) is the sum of the scores of exactly the
\* workouts with floor((now - date) / 24h) = k; future-dated and too old
\* workouts contribute nowhere.
C7_EntryIsSumOfAgeK ==
    Aggregated =>
        /\ Len(dailyTrimp) = days
        /\ \A k \in 0..(days - 1) : dailyTrimp[days - k] = SumScores(AgedDays(k))

\* C7 witness: two scoring workouts of the same age k >= 1 share an entry,
\* beside a call with a future-dated workout
C7_Witness ==
    /\ Aggregated
    /\ days = MaxDays
    /\ \E k \in 1..(days - 1) :
          /\ Cardinality(AgedDays(k)) >= 2
          /\ \A i \in AgedDays(k) : ScoreOf(workouts[i]) # Num(0)
          /\ dailyTrimp[days - k] = SumScores(AgedDays(k))

----------------------------------------------------------------------------
(* lib/training-metrics.ts: getTrainingLoadZone *)

TrainingLoadZone ==
    {"Detraining", "Recovery", "Maintenance", "Productive", "Optimal",
     "Overreaching", "Overtraining"}

\* the balance thresholds tested before the chronic-low check
getTrainingLoadZone_BalanceFirst(tsbArg, ctlArg) ==
    LET safeTsb == IF isNaN(tsbArg) THEN Num(0) ELSE tsbArg
        safeCtl == IF isNaN(ctlArg) THEN Num(0) ELSE ctlArg
    IN  IF Gt(safeTsb, Num(25)) THEN "Recovery"
        ELSE IF Lt(safeCtl, Num(30)) THEN "Detraining"
        ELSE IF Gt(safeTsb, Num(5)) THEN "Maintenance"
        ELSE IF Gt(safeTsb, Num(-10)) THEN "Productive"
        ELSE IF Gt(safeTsb, Num(-25)) THEN "Optimal"
        ELSE IF Gt(safeTsb, Num(-40)) THEN "Overreaching"
        ELSE "Overtraining"

\* the thresholds compared with >= instead of >
getTrainingLoadZone_NonStrict(tsbArg, ctlArg) ==
    LET safeTsb == IF isNaN(tsbArg) THEN Num(0) ELSE tsbArg
        safeCtl == IF isNaN(ctlArg) THEN Num(0) ELSE ctlArg
    IN  IF Lt(safeCtl, Num(30)) THEN "Detraining"
        ELSE IF Ge(safeTsb, Num(25)) THEN "Recovery"
        ELSE IF Ge(safeTsb, Num(5)) THEN "Maintenance"
        ELSE IF Ge(safeTsb, Num(-10)) THEN "Productive"
        ELSE IF Ge(safeTsb, Num(-25)) THEN "Optimal"
        ELSE IF Ge(safeTsb, Num(-40)) THEN "Overreaching"
        ELSE "Overtraining"

\* no NaN handling and a last branch with a condition of its own: when no
\* branch matches the function falls off its end and returns undefined
getTrainingLoadZone_NoFallback(tsbArg, ctlArg) ==
    IF Lt(ctlArg, Num(30)) THEN "Detraining"
    ELSE IF Gt(tsbArg, Num(25)) THEN "Recovery"
    ELSE IF Gt(tsbArg, Num(5)) THEN "Maintenance"
    ELSE IF Gt(tsbArg, Num(-10)) THEN "Productive"
    ELSE IF Gt(tsbArg, Num(-25)) THEN "Optimal"
    ELSE IF Gt(tsbArg, Num(-40)) THEN "Overreaching"
    ELSE IF Le(tsbArg, Num(-40)) THEN "Overtraining"
    ELSE "undefined"

getTrainingLoadZone(tsbArg, ctlArg) ==
    LET safeTsb == IF isNaN(tsbArg) THEN Num(0) ELSE tsbArg
        safeCtl == IF isNaN(ctlArg) THEN Num(0) ELSE ctlArg
    IN  IF Lt(safeCtl, Num(30)) THEN "Detraining"
        ELSE IF Gt(safeTsb, Num(25)) THEN "Recovery"
        ELSE IF Gt(safeTsb, Num(5)) THEN "Maintenance"
        ELSE IF Gt(safeTsb, Num(-10)) THEN "Productive"
        ELSE IF Gt(safeTsb, Num(-25)) THEN "Optimal"
        ELSE IF Gt(safeTsb, Num(-40)) THEN "Overreaching"
        ELSE "Overtraining"

TsbValues ==
    {Num(i) : i \in {-50, -41, -40, -39, -26, -25, -24, -11, -10, -9, -5, 0,
                     4, 5, 6, 24, 25, 26, 30}}
        \cup {Rat(51, 2), Rat(-81, 2), NaN, PosInf, NegInf, Undefined}

CtlValues ==
    {Num(i) : i \in {-5, 0, 20, 29, 30, 31, 50}}
        \cup {Rat(59, 2), Rat(61, 2), NaN, PosInf, NegInf, Undefined}

ZoneInit ==
    /\ tsb \in TsbValues
    /\ ctl \in CtlValues
    /\ zone = "none"
    /\ IdleExcept({"zone"})

CallGetTrainingLoadZone ==
    /\ zone = "none"
    /\ zone' = getTrainingLoadZone(tsb, ctl)
    /\ UNCHANGED <<tsb, ctl, zoneFrame>>

ZoneNext == CallGetTrainingLoadZone

SpecZone == ZoneInit /\ [][ZoneNext]_vars

----------------------------------------------------------------------------
(* Claims about getTrainingLoadZone (SpecZone) *)

Classified == zone # "none"

\* C8: every ctl < 30 gives Detraining, whatever tsb is: the chronic-low check
\* comes first and overrides the balance thresholds.
C8_ChronicLowIsDetraining ==
    (Classified /\ Lt(ctl, Num(30))) => zone = "Detraining"

\* C8 witness: tsb = 30, ctl = 29 was classified (Recovery by balance alone)
C8_Witness ==
    /\ Classified
    /\ tsb = Num(30)
    /\ ctl = Num(29)

\* C9: for ctl >= 30 the zone is the first match of the table, with strict
\* comparisons: (25, oo) Recovery, (5, 25] Maintenance, (-10, 5] Productive,
\* (-25, -10] Optimal, (-40, -25] Overreaching, (-oo, -40] Overtraining.
C9_BalanceTable ==
    (Classified /\ Ge(ctl, Num(30))) =>
        /\ Gt(tsb, Num(25)) => zone = "Recovery"
        /\ (Gt(tsb, Num(5)) /\ Le(tsb, Num(25))) => zone = "Maintenance"
        /\ (Gt(tsb, Num(-10)) /\ Le(tsb, Num(5))) => zone = "Productive"
        /\ (Gt(tsb, Num(-25)) /\ Le(tsb, Num(-10))) => zone = "Optimal"
        /\ (Gt(tsb, Num(-40)) /\ Le(tsb, Num(-25))) => zone = "Overreaching"
        /\ Le(tsb, Num(-40)) => zone = "Overtraining"

\* C9 witness: the boundary tsb = 25 with ctl >= 30 was classified
C9_Witness ==
    /\ Classified
    /\ tsb = Num(25)
    /\ ctl = Num(30)
    /\ zone = "Maintenance"

\* C10: the result is one of the seven zones for every pair of arguments,
\* NaN included.
C10_ZoneTotal ==
    Classified => zone \in TrainingLoadZone

\* C10 witness: a NaN balance with a chronic load >= 30 was classified
C10_Witness ==
    /\ Classified
    /\ tsb = NaN
    /\ ctl = Num(50)
    /\ zone \in TrainingLoadZone

----------------------------------------------------------------------------
(* lib/training-metrics.ts: calculateATL, calculateCTL, calculateTSB and   *)
(* calculateRampRate                                                       *)

\* items[j] with j counted from 0; undefined outside the array
Index(items, j) ==
    IF j >= 0 /\ j < Len(items) THEN items[j + 1] ELSE Undefined

\* Array.prototype.slice(-count): a copy of the last count items
SliceLast(items, count) ==
    IF Len(items) <= count THEN items
    ELSE SubSeq(items, Len(items) - count + 1, Len(items))

\* reduce((sum, trimp) => sum + (isNaN(trimp) ? 0 : trimp), 0), from items[i] on
RECURSIVE SumSkippingNaN(_, _, _)
SumSkippingNaN(items, i, sum) ==
    IF i > Len(items) THEN sum
    ELSE SumSkippingNaN(items, i + 1,
                        Add(sum, IF isNaN(items[i]) THEN Num(0) ELSE items[i]))

\* Math.exp(-i / 7) and Math.exp(-i / 42) for the i the loops reach
AtlWeights == [i \in 0..6 |-> MathExp(Rat(-i, 7))]
CtlWeights == [i \in 0..41 |-> MathExp(Rat(-i, 42))]

\* the weighting loop from i on, weights[i] being Math.exp(-i / timeConstant):
\* <<weightedSum, weightSum>>
RECURSIVE WeightedSums(_, _, _, _, _)
WeightedSums(window, weights, i, weightedSum, weightSum) ==
    IF i >= Len(window) THEN <<weightedSum, weightSum>>
    ELSE LET weight == weights[i]
             x == Index(window, Len(window) - 1 - i)
         IN  WeightedSums(window, weights, i + 1,
                          Add(weightedSum, Mul(IF isNaN(x) THEN Num(0) ELSE x, weight)),
                          Add(weightSum, weight))

\* the exponentially weighted average of a window, as both functions end
WeightedAverage(window, weights) ==
    LET sums == WeightedSums(window, weights, 0, Num(0), Num(0))
        result == Div(sums[1], sums[2])
    IN  IF isNaN(result) THEN Num(0) ELSE MathRound(result)

\* the average of what there is, for a series shorter than 7 days
WarmUpAverage(items) ==
    LET avgTrimp == Div(SumSkippingNaN(items, 1, Num(0)), Num(Len(items)))
    IN  IF isNaN(avgTrimp) THEN Num(0) ELSE MathRound(avgTrimp)

\* the warm-up average taken below 14 days instead of below 7
calculateATL_LongWarmUp(dailyTrimpValues) ==
    IF dailyTrimpValues.ref # "array" \/ Len(dailyTrimpValues.items) = 0
    THEN Num(0)
    ELSE IF Len(dailyTrimpValues.items) < 14
    THEN WarmUpAverage(dailyTrimpValues.items)
    ELSE LET last7Days == SliceLast(dailyTrimpValues.items, 7)
         IN  WeightedAverage(last7Days, AtlWeights)

\* no warm-up branch: the weighted average of whatever slice(-7) returns
calculateATL_NoWarmUp(dailyTrimpValues) ==
    IF dailyTrimpValues.ref # "array" \/ Len(dailyTrimpValues.items) = 0
    THEN Num(0)
    ELSE LET last7Days == SliceLast(dailyTrimpValues.items, 7)
         IN  WeightedAverage(last7Days, AtlWeights)

\* Math.exp(-i / 7) for every i a loop over a whole series reaches
WholeSeriesWeights == [i \in 0..41 |-> MathExp(Rat(-i, 7))]

\* the weighting loop run over the whole series instead of its last 7 days
calculateATL_WholeSeries(dailyTrimpValues) ==
    IF dailyTrimpValues.ref # "array" \/ Len(dailyTrimpValues.items) = 0
    THEN Num(0)
    ELSE IF Len(dailyTrimpValues.items) < 7
    THEN WarmUpAverage(dailyTrimpValues.items)
    ELSE WeightedAverage(dailyTrimpValues.items, WholeSeriesWeights)

calculateATL(dailyTrimpValues) ==
    IF dailyTrimpValues.ref # "array" \/ Len(dailyTrimpValues.items) = 0
    THEN Num(0)
    ELSE IF Len(dailyTrimpValues.items) < 7
    THEN WarmUpAverage(dailyTrimpValues.items)
    ELSE LET last7Days == SliceLast(dailyTrimpValues.items, 7)
         IN  WeightedAverage(last7Days, AtlWeights)

\* the weighted sum divided by the number of days instead of the weight sum
calculateCTL_DividedByCount(dailyTrimpValues) ==
    IF dailyTrimpValues.ref # "array" \/ Len(dailyTrimpValues.items) = 0
    THEN Num(0)
    ELSE LET relevantDays == SliceLast(dailyTrimpValues.items, 42)
             sums == WeightedSums(relevantDays, CtlWeights, 0, Num(0), Num(0))
             result == Div(sums[1], Num(Len(relevantDays)))
         IN  IF isNaN(result) THEN Num(0) ELSE MathRound(result)

\* a warm-up branch as in calculateATL: the average of what there is, for a
\* series shorter than 42 days
calculateCTL_WarmUp(dailyTrimpValues) ==
    IF dailyTrimpValues.ref # "array" \/ Len(dailyTrimpValues.items) = 0
    THEN Num(0)
    ELSE IF Len(dailyTrimpValues.items) < 42
    THEN WarmUpAverage(dailyTrimpValues.items)
    ELSE LET relevantDays == SliceLast(dailyTrimpValues.items, 42)
         IN  WeightedAverage(relevantDays, CtlWeights)

calculateCTL(dailyTrimpValues) ==
    IF dailyTrimpValues.ref # "array" \/ Len(dailyTrimpValues.items) = 0
    THEN Num(0)
    ELSE LET daysToUse == IF Len(dailyTrimpValues.items) < 42
                          THEN Len(dailyTrimpValues.items) ELSE 42
             relevantDays == SliceLast(dailyTrimpValues.items, daysToUse)
         IN  WeightedAverage(relevantDays, CtlWeights)

calculateTSB(ctlArg, atlArg) ==
    IF isNaN(ctlArg) \/ isNaN(atlArg) THEN Num(0) ELSE Sub(ctlArg, atlArg)

\* the guard tests for a missing array only, not for its length
calculateRampRate_NoLengthGuard(ctlValues) ==
    IF ctlValues.ref # "array"
    THEN Num(0)
    ELSE LET last == Index(ctlValues.items, Len(ctlValues.items) - 1)
             weekAgo == Index(ctlValues.items, Len(ctlValues.items) - 7)
             currentCTL == IF isNaN(last) THEN Num(0) ELSE last
             weekAgoCTL == IF isNaN(weekAgo) THEN Num(0) ELSE weekAgo
             result == Sub(currentCTL, weekAgoCTL)
         IN  IF isNaN(result) THEN Num(0)
             ELSE Div(MathRound(Mul(result, Num(10))), Num(10))

calculateRampRate(ctlValues) ==
    IF ctlValues.ref # "array" \/ Len(ctlValues.items) < 7
    THEN Num(0)
    ELSE LET last == Index(ctlValues.items, Len(ctlValues.items) - 1)
             weekAgo == Index(ctlValues.items, Len(ctlValues.items) - 7)
             currentCTL == IF isNaN(last) THEN Num(0) ELSE last
             weekAgoCTL == IF isNaN(weekAgo) THEN Num(0) ELSE weekAgo
             result == Sub(currentCTL, weekAgoCTL)
         IN  IF isNaN(result) THEN Num(0)
             ELSE Div(MathRound(Mul(result, Num(10))), Num(10))

----------------------------------------------------------------------------
(* Calling the load functions: the arrays and numbers they are given *)

MaxSeriesLen == 8

SeqsUpTo(S, n) == UNION {[1..k -> S] : k \in 0..n}

\* a series with one entry replaced by NaN or Infinity
Spoiled(S) ==
    UNION { {[s EXCEPT ![i] = v] : i \in DOMAIN s, v \in {NaN, PosInf}} :
            s \in S }

DailyValues == {Num(0), Num(50)}

\* ten days with one session of load 50 on day 8
TenDaySeries ==
    <<Num(0), Num(0), Num(0), Num(0), Num(0), Num(0), Num(0), Num(50), Num(0), Num(0)>>

\* 43 days with a session on the oldest day, which a 42-day window leaves
\* out, and a session today
FortyThreeDaySeries == [i \in 1..43 |-> IF i \in {1, 43} THEN Num(50) ELSE Num(0)]

\* the same load every day, on either side of the Detraining threshold
ConstantSeries ==
    {[i \in 1..len |-> Num(c)] : len \in {3, MaxSeriesLen}, c \in {29, 30}}

DailySeries ==
    {Arr(s) : s \in SeqsUpTo(DailyValues, MaxSeriesLen)
                    \cup Spoiled(SeqsUpTo(DailyValues, MaxSeriesLen))
                    \cup {TenDaySeries, FortyThreeDaySeries}
                    \cup ConstantSeries}
        \cup {NullArray, UndefinedArray}

ChronicValues == {Num(0), Rat(617, 50)}

ChronicSeries ==
    {Arr(s) : s \in SeqsUpTo(ChronicValues, MaxSeriesLen)
                    \cup Spoiled(SeqsUpTo(ChronicValues, MaxSeriesLen))}
        \cup {NullArray, UndefinedArray}

BalanceArgs == {Num(0), Num(8), Num(50), NaN, PosInf, NegInf, Undefined}

LoadInit ==
    /\ LoadIdle
    /\ IdleExcept({"load"})

CallCalculateATL ==
    /\ loadCall = NoLoadCall
    /\ \E s \in DailySeries :
        /\ series' = s
        /\ loadCall' = [fn |-> "calculateATL", ctl |-> Undefined, atl |-> Undefined]
        /\ loadResult' = calculateATL(s)
        /\ UNCHANGED <<chart, loadFrame>>

CallCalculateCTL ==
    /\ loadCall = NoLoadCall
    /\ \E s \in DailySeries :
        /\ series' = s
        /\ loadCall' = [fn |-> "calculateCTL", ctl |-> Undefined, atl |-> Undefined]
        /\ loadResult' = calculateCTL(s)
        /\ UNCHANGED <<chart, loadFrame>>

CallCalculateTSB ==
    /\ loadCall = NoLoadCall
    /\ \E c \in BalanceArgs, a \in BalanceArgs :
        /\ series' = UndefinedArray
        /\ loadCall' = [fn |-> "calculateTSB", ctl |-> c, atl |-> a]
        /\ loadResult' = calculateTSB(c, a)
        /\ UNCHANGED <<chart, loadFrame>>

CallCalculateRampRate ==
    /\ loadCall = NoLoadCall
    /\ \E s \in ChronicSeries :
        /\ series' = s
        /\ loadCall' = [fn |-> "calculateRampRate", ctl |-> Undefined, atl |-> Undefined]
        /\ loadResult' = calculateRampRate(s)
        /\ UNCHANGED <<chart, loadFrame>>

LoadNext ==
    \/ CallCalculateATL
    \/ CallCalculateCTL
    \/ CallCalculateTSB
    \/ CallCalculateRampRate

SpecLoad == LoadInit /\ [][LoadNext]_vars

----------------------------------------------------------------------------
(* Claims about the load functions (SpecLoad) *)

LoadCalled(fn) == loadCall.fn = fn

AllFinite(items) == \A i \in DOMAIN items : IsFinite(items[i])

\* x rounded to one decimal place
RoundOneDecimal(x) == Div(MathRound(Mul(x, Num(10))), Num(10))

\* C11: for a CTL series with at least 8 entries calculateRampRate returns the
\* last entry minus the entry 7 positions before it (index length-1-7),
\* rounded to one decimal place.
C11_RampIsLatestMinusSevenBack ==
    ( /\ LoadCalled("calculateRampRate")
      /\ series.ref = "array"
      /\ Len(series.items) >= 8
      /\ AllFinite(series.items) )
    => loadResult =
          RoundOneDecimal(Sub(series.items[Len(series.items)],
                              series.items[Len(series.items) - 7]))

\* C12: calculateRampRate returns 0 for every CTL series with fewer than 7
\* entries, an empty, null or undefined series included.
C12_ShortSeriesRampIsZero ==
    ( /\ LoadCalled("calculateRampRate")
      /\ series.ref # "array" \/ Len(series.items) < 7 )
    => loadResult = Num(0)

\* C12 witness: a series of 6 entries that rises from 0 to a non-zero value
C12_Witness ==
    /\ LoadCalled("calculateRampRate")
    /\ series.ref = "array"
    /\ Len(series.items) = 6
    /\ series.items[1] = Num(0)
    /\ series.items[6] = Rat(617, 50)
    /\ loadResult = Num(0)

\* the sum of the entries, a NaN entry counted as 0
RECURSIVE EntrySum(_)
EntrySum(items) ==
    IF items = <<>> THEN Num(0)
    ELSE Add(EntrySum(Tail(items)), IF isNaN(Head(items)) THEN Num(0) ELSE Head(items))

\* the arithmetic mean of the entries
Mean(items) == Div(EntrySum(items), Num(Len(items)))

\* sum over i = from .. 6 of f[i]
RECURSIVE SumTo6(_, _)
SumTo6(f, from) == IF from > 6 THEN Num(0) ELSE Add(f[from], SumTo6(f, from + 1))

\* the weights exp(-i/7), i = 0 for the most recent day
RecencyWeights == [i \in 0..6 |-> MathExp(Rat(-i, 7))]

\* the mean of the trailing 7 entries with these weights; a NaN entry counted
\* as 0
WeightedMean7(items) ==
    LET w == RecencyWeights
        x == [i \in 0..6 |-> IF isNaN(items[Len(items) - i]) THEN Num(0)
                                                             ELSE items[Len(items) - i]]
    IN  Div(SumTo6([i \in 0..6 |-> Mul(w[i], x[i])], 0), SumTo6(w, 0))

\* 0 for NaN, else the nearest integer
RoundedOrZero(x) == IF isNaN(x) THEN Num(0) ELSE MathRound(x)

\* ATL_yesterday + (TRIMP_today - ATL_yesterday) / 7, ATL_yesterday being the
\* acute load of the series without its last day
IterativeUpdate(items) ==
    LET yesterday == calculateATL(Arr(SubSeq(items, 1, Len(items) - 1)))
        today == items[Len(items)]
    IN  Add(yesterday, Div(Sub(today, yesterday), Num(7)))

\* C13 as stated: for the 10-day series [0,0,0,0,0,0,0,50,0,0] the acute load
\* is the warm-up average of all 10 values, 5.
C13_TenDaySeriesIsWarmUpMean ==
    (LoadCalled("calculateATL") /\ series = Arr(TenDaySeries))
    => loadResult = Num(5)

\* C13 amended: for the 10-day series [0,0,0,0,0,0,0,50,0,0] the acute load
\* is 8, the rounded exponentially weighted mean of the last 7 days; the
\* warm-up average (5) is taken only for fewer than 7 entries.
C13_TenDaySeriesIsWeighted ==
    (LoadCalled("calculateATL") /\ series = Arr(TenDaySeries))
    => /\ loadResult = Num(8)
       /\ loadResult = MathRound(WeightedMean7(TenDaySeries))
       /\ loadResult # Mean(TenDaySeries)

\* C13 witness: calculateATL was called on the 10-day series
C13_Witness ==
    /\ LoadCalled("calculateATL")
    /\ series = Arr(TenDaySeries)
    /\ Mean(TenDaySeries) = Num(5)
    /\ loadResult = Num(8)

\* C14 as stated: for a non-empty series of fewer than 7 entries calculateATL
\* returns the arithmetic mean of all entries (sum divided by length).
C14_ShortSeriesIsMean ==
    ( /\ LoadCalled("calculateATL")
      /\ series.ref = "array"
      /\ Len(series.items) \in 1..6
      /\ AllFinite(series.items) )
    => loadResult = Mean(series.items)

\* C14 amended: for a non-empty series of fewer than 7 entries calculateATL
\* returns the arithmetic mean of all entries (a NaN entry counted as 0)
\* rounded to the nearest integer, and 0 when that mean is NaN.
C14_ShortSeriesIsRoundedMean ==
    ( /\ LoadCalled("calculateATL")
      /\ series.ref = "array"
      /\ Len(series.items) \in 1..6 )
    => loadResult = RoundedOrZero(Mean(series.items))

\* C14 witness: a short series whose mean is not an integer
C14_Witness ==
    /\ LoadCalled("calculateATL")
    /\ series = Arr(<<Num(0), Num(50), Num(50)>>)
    /\ Mean(series.items) = Rat(100, 3)
    /\ loadResult = Num(33)

\* C15: calculateATL, calculateCTL and calculateTSB always return a finite
\* number, never NaN and never an infinity, whatever the daily values and the
\* ctl / atl arguments are.
C15_LoadsAreFinite ==
    (loadCall.fn \in {"calculateATL", "calculateCTL", "calculateTSB"})
    => IsFinite(loadResult)

\* C20 as stated: for a series of at least 7 entries calculateATL returns the
\* weighted mean of the trailing 7 entries with weights exp(-i/7) (sum of
\* weight*value divided by the sum of the weights).
C20_LongSeriesIsWeightedMean ==
    ( /\ LoadCalled("calculateATL")
      /\ series.ref = "array"
      /\ Len(series.items) >= 7
      /\ AllFinite(series.items) )
    => loadResult = WeightedMean7(series.items)

\* C20 amended: for a series of at least 7 entries calculateATL returns the
\* weighted mean of the trailing 7 entries with weights exp(-i/7) (a NaN entry
\* counted as 0) rounded to the nearest integer; the result is that of the
\* last 7 entries alone, so the same for every series that ends with them.
C20_LongSeriesIsRoundedWeightedMean ==
    ( /\ LoadCalled("calculateATL")
      /\ series.ref = "array"
      /\ Len(series.items) >= 7 )
    => /\ loadResult = RoundedOrZero(WeightedMean7(series.items))
       /\ calculateATL(Arr(SubSeq(series.items, Len(series.items) - 6,
                                   Len(series.items)))) = loadResult

\* C20 witness: 8 days, a session on the day that is older than the last 7
\* and one inside them; the result is neither the unrounded mean nor the
\* iterative update
C20_Witness ==
    /\ LoadCalled("calculateATL")
    /\ series.ref = "array"
    /\ Len(series.items) = 8
    /\ AllFinite(series.items)
    /\ series.items[1] = Num(50)
    /\ \E i \in 2..8 : series.items[i] = Num(50)
    /\ loadResult = MathRound(WeightedMean7(series.items))
    /\ loadResult # WeightedMean7(series.items)
    /\ loadResult # IterativeUpdate(series.items)

\* sum over i = from .. upto of f[i]
RECURSIVE SumOver(_, _, _)
SumOver(f, from, upto) ==
    IF from > upto THEN Num(0) ELSE Add(f[from], SumOver(f, from + 1, upto))

\* the weights exp(-i/42), i = 0 for the most recent day
ChronicWeights == [i \in 0..41 |-> MathExp(Rat(-i, 42))]

\* the mean of the trailing min(length, 42) entries with these weights; a NaN
\* entry counted as 0
WeightedMean42(items) ==
    LET n == IF Len(items) < 42 THEN Len(items) ELSE 42
        w == ChronicWeights
        x == [i \in 0..(n - 1) |-> IF isNaN(items[Len(items) - i]) THEN Num(0)
                                                                   ELSE items[Len(items) - i]]
    IN  Div(SumOver([i \in 0..(n - 1) |-> Mul(w[i], x[i])], 0, n - 1),
            SumOver(w, 0, n - 1))

\* C21 as stated: calculateCTL treats a series shorter than its time
\* constant, 42 days, the way calculateATL treats a series shorter than 7
\* days: it returns the average of all the entries there are.
C21_ShortChronicSeriesAsAcute ==
    ( /\ LoadCalled("calculateCTL")
      /\ series.ref = "array"
      /\ Len(series.items) \in 1..41 )
    => loadResult = RoundedOrZero(Mean(series.items))

\* C21 amended: for every non-empty series, shorter than 42 days or not,
\* calculateCTL returns the mean of the trailing min(length, 42) entries with
\* weights exp(-i/42) (a NaN entry counted as 0) rounded to the nearest
\* integer, 0 when that mean is NaN; it has no branch for a short series, so
\* below 7 days it is not the average calculateATL returns.
C21_ChronicIsRoundedWeightedMean ==
    ( /\ LoadCalled("calculateCTL")
      /\ series.ref = "array"
      /\ Len(series.items) >= 1 )
    => loadResult = RoundedOrZero(WeightedMean42(series.items))

\* C21 witness: on 6 days with two early sessions calculateCTL returns the
\* weighted mean, 16, where calculateATL returns the average, 17
C21_Witness ==
    /\ LoadCalled("calculateCTL")
    /\ series = Arr(<<Num(50), Num(50), Num(0), Num(0), Num(0), Num(0)>>)
    /\ loadResult = Num(16)
    /\ calculateATL(series) = Num(17)

\* a non-empty array of non-negative integers
NonNegativeIntegers(s) ==
    /\ s.ref = "array"
    /\ s.items # <<>>
    /\ \A i \in DOMAIN s.items :
          IsFinite(s.items[i]) /\ s.items[i].d = 1 /\ s.items[i].n >= 0

\* the entries the called function averages
Averaged ==
    IF loadCall.fn = "calculateATL"
    THEN IF Len(series.items) < 7 THEN series.items ELSE SliceLast(series.items, 7)
    ELSE SliceLast(series.items, 42)

\* C29: for a daily series of non-negative integers calculateATL returns a
\* value between the minimum and the maximum of the entries it averages (all
\* of them below 7 entries, the last 7 otherwise) and calculateCTL one between
\* the minimum and the maximum of the last min(length, 42) entries; for a
\* constant series c both return c, calculateTSB of the two is 0, and the
\* zone is Detraining when c < 30 and Productive otherwise.
C29_LoadsWithinEntries ==
    (loadCall.fn \in {"calculateATL", "calculateCTL"} /\ NonNegativeIntegers(series))
    => /\ \E i \in DOMAIN Averaged : Le(Averaged[i], loadResult)
       /\ \E i \in DOMAIN Averaged : Le(loadResult, Averaged[i])
       /\ (\A i \in DOMAIN series.items : series.items[i] = series.items[1])
          => LET c == series.items[1]
                 balance == calculateTSB(calculateCTL(series), calculateATL(series))
             IN  /\ loadResult = c
                 /\ balance = Num(0)
                 /\ getTrainingLoadZone(balance, calculateCTL(series)) =
                        IF c.n < 30 THEN "Detraining" ELSE "Productive"

\* calculateCTL on eight days of load 30: 30, inside the zone Productive
C29_Witness ==
    /\ LoadCalled("calculateCTL")
    /\ series = Arr([i \in 1..MaxSeriesLen |-> Num(30)])
    /\ loadResult = Num(30)
    /\ getTrainingLoadZone(calculateTSB(loadResult, calculateATL(series)), loadResult)
           = "Productive"

----------------------------------------------------------------------------
(* Loading the dashboard more than once: each load builds the daily series *)
(* from the stored workouts at the time of the load and computes the       *)
(* current ATL and CTL from it.                                            *)

MaxRuns == 2

RepeatInit ==
    /\ workouts \in SeqsUpTo(DatedWorkouts, 1)
    /\ days \in 1..MaxDays
    /\ now = MaxDays * HoursPerDay
    /\ impl = "none"
    /\ dailyTrimp = <<>>
    /\ runs = <<>>
    /\ IdleExcept({"daily", "repeat"})

\* what the cards show for a daily series
CurrentLoad(which, daily) ==
    [impl |-> which, daily |-> daily,
     atl |-> calculateATL(Arr(daily)), ctl |-> calculateCTL(Arr(daily))]

\* a load with workout-data's aggregator, at a time t of the clock
LoadWithWorkoutData ==
    /\ Len(runs) < MaxRuns
    /\ \E t \in CallTimes :
          /\ t >= now
          /\ now' = t
          /\ impl' = "workout-data"
          /\ dailyTrimp' = WD_calculateDailyTrimpValues(workouts, days, t)
          /\ runs' = Append(runs, CurrentLoad("workout-data", dailyTrimp'))
    /\ UNCHANGED <<workouts, days, repeatFrame>>

\* a load with the workout service's aggregator, at a time t of the clock
LoadWithWorkoutService ==
    /\ Len(runs) < MaxRuns
    /\ \E t \in CallTimes :
          /\ t >= now
          /\ now' = t
          /\ impl' = "workout-service"
          /\ dailyTrimp' = Svc_calculateDailyTrimpValues(workouts, days, t)
          /\ runs' = Append(runs, CurrentLoad("workout-service", dailyTrimp'))
    /\ UNCHANGED <<workouts, days, repeatFrame>>

RepeatNext ==
    \/ LoadWithWorkoutData
    \/ LoadWithWorkoutService

SpecRepeat == RepeatInit /\ [][RepeatNext]_vars

----------------------------------------------------------------------------
(* Claims about repeated loads (SpecRepeat) *)

\* C16: building the daily series and computing ATL and CTL twice from the
\* same workout list and the same window length gives identical arrays and
\* values, whenever the two calls are made.
C16_RepeatedRunsAgree ==
    \A i, j \in DOMAIN runs :
        runs[i].impl = runs[j].impl =>
            /\ runs[i].daily = runs[j].daily
            /\ runs[i].atl = runs[j].atl
            /\ runs[i].ctl = runs[j].ctl

----------------------------------------------------------------------------
(* The arrays the functions are handed and the arrays they create.  heap   *)
(* maps a reference (1, 2, ...) to the items of the array it refers to; a  *)
(* call returns a number (ref = 0) or the reference of an array.           *)

MaxHeap == 4

ReturnedNumber(x) == [ref |-> 0, value |-> x]
ReturnedArray(r)  == [ref |-> r, value |-> Undefined]

\* Array(len).fill(0): a new array
ArrayFill(h, len) == [heap |-> Append(h, ZeroFilled(len)), ret |-> Len(h) + 1]

\* receiver.splice(-count): removes the last count items from the receiver
\* and returns them in a new array
ArraySlice_Splice(h, receiver, count) ==
    [heap |-> Append([h EXCEPT ![receiver] =
                         SubSeq(@, 1, Len(@) - Len(SliceLast(@, count)))],
                     SliceLast(h[receiver], count)),
     ret |-> Len(h) + 1]

\* receiver.slice(-count): a new array holding a copy of the last count items
ArraySlice(h, receiver, count) ==
    [heap |-> Append(h, SliceLast(h[receiver], count)), ret |-> Len(h) + 1]

\* receiver.reverse(): reverses the receiver in place and returns it
ArrayReverse(h, receiver) ==
    [heap |-> [h EXCEPT ![receiver] = Reverse(@)], ret |-> receiver]

\* workout-data's calculateDailyTrimpValues(workouts, days) on the heap
Heap_calculateDailyTrimpValues(h, workoutsRef, len, today) ==
    LET dailyTrimpRef == ArrayFill(h, len)
        summed == [dailyTrimpRef.heap EXCEPT ![dailyTrimpRef.ret] =
                      WD_forEach(h[workoutsRef], 1, today, len, @)]
        reversed == ArrayReverse(summed, dailyTrimpRef.ret)
    IN  [heap |-> reversed.heap, ret |-> ReturnedArray(reversed.ret)]

\* calculateATL(dailyTrimpValues) on the heap: slice(-7) above 6 entries
Heap_calculateATL(h, valuesRef) ==
    LET last7Days == ArraySlice(h, valuesRef, 7)
    IN  [heap |-> IF Len(h[valuesRef]) < 7 THEN h ELSE last7Days.heap,
         ret |-> ReturnedNumber(calculateATL(Arr(h[valuesRef])))]

\* calculateCTL(dailyTrimpValues) on the heap: slice(-daysToUse) unless empty
Heap_calculateCTL(h, valuesRef) ==
    LET daysToUse == IF Len(h[valuesRef]) < 42 THEN Len(h[valuesRef]) ELSE 42
        relevantDays == ArraySlice(h, valuesRef, daysToUse)
    IN  [heap |-> IF Len(h[valuesRef]) = 0 THEN h ELSE relevantDays.heap,
         ret |-> ReturnedNumber(calculateCTL(Arr(h[valuesRef])))]

\* calculateRampRate(ctlValues) on the heap: it only reads
Heap_calculateRampRate(h, valuesRef) ==
    [heap |-> h, ret |-> ReturnedNumber(calculateRampRate(Arr(h[valuesRef])))]

\* the caller's arrays: a workout list (reference 1) and a series of numbers
\* (reference 2)
HeapWorkouts ==
    { w \in DatedWorkouts :
        /\ w.date \in {Num(HoursPerDay + 6), Num(MaxDays * HoursPerDay + 6)}
        /\ Truthy(w.avgHeartRate) }

HeapSeries ==
    { [i \in 1..n |-> IF i % 3 = 1 THEN Num(50) ELSE Num(0)] :
        n \in {0, 6, 7, MaxSeriesLen} }

HeapInit ==
    /\ \E list \in SeqsUpTo(HeapWorkouts, 2), values \in HeapSeries :
          heap = <<list, values>>
    /\ heapCall = NoHeapCall
    /\ IdleExcept({"heap"})

\* the references of the arrays of numbers
NumberArrays == DOMAIN heap \ {1}

HeapCallDailyTrimpValues ==
    /\ Len(heap) < MaxHeap
    /\ \E len \in 1..MaxDays, today \in CallTimes :
          LET done == Heap_calculateDailyTrimpValues(heap, 1, len, today)
          IN  /\ heap' = done.heap
              /\ heapCall' = [fn |-> "calculateDailyTrimpValues", arg |-> 1,
                              ret |-> done.ret]
    /\ UNCHANGED heapFrame

HeapCallATL ==
    /\ Len(heap) < MaxHeap
    /\ \E r \in NumberArrays :
          LET done == Heap_calculateATL(heap, r)
          IN  /\ heap' = done.heap
              /\ heapCall' = [fn |-> "calculateATL", arg |-> r, ret |-> done.ret]
    /\ UNCHANGED heapFrame

HeapCallCTL ==
    /\ Len(heap) < MaxHeap
    /\ \E r \in NumberArrays :
          LET done == Heap_calculateCTL(heap, r)
          IN  /\ heap' = done.heap
              /\ heapCall' = [fn |-> "calculateCTL", arg |-> r, ret |-> done.ret]
    /\ UNCHANGED heapFrame

HeapCallRampRate ==
    /\ Len(heap) < MaxHeap
    /\ \E r \in NumberArrays :
          LET done == Heap_calculateRampRate(heap, r)
          IN  /\ heap' = done.heap
              /\ heapCall' = [fn |-> "calculateRampRate", arg |-> r, ret |-> done.ret]
    /\ UNCHANGED heapFrame

HeapNext ==
    \/ HeapCallDailyTrimpValues
    \/ HeapCallATL
    \/ HeapCallCTL
    \/ HeapCallRampRate

SpecHeap == HeapInit /\ [][HeapNext]_vars

----------------------------------------------------------------------------
(* Claims about the arrays (SpecHeap) *)

\* C17: calculateDailyTrimpValues, calculateATL, calculateCTL and
\* calculateRampRate never mutate their inputs: every array that exists
\* before a call has the same items in the same order after it, and an array
\* that is returned is a new one.
C17_InputsNotMutated ==
    [][ /\ \A r \in DOMAIN heap : heap'[r] = heap[r]
        /\ heapCall'.ret.ref \notin DOMAIN heap ]_vars

\* C17 witness: after an earlier call calculateATL took its copy of the last 7
\* days of the caller's series, which is longer than 7 days
C17_Witness ==
    /\ heapCall.fn = "calculateATL"
    /\ heapCall.arg = 2
    /\ Len(heap) = 4
    /\ Len(heap[2]) = MaxSeriesLen
    /\ heap[4] = SliceLast(heap[2], 7)
    /\ heap[4] # heap[2]

----------------------------------------------------------------------------
(* The database tables behind the training metrics service *)

\* what a NUMERIC(8,2) column keeps of a number: two decimals, rounded half
\* away from zero; NaN and the infinities travel as JSON null
Numeric2(x) ==
    LET a == ToNumber(x)
    IN  IF a.k # "fin" THEN Undefined
        ELSE LET cents == MathRound(Mul(Num(100), [a EXCEPT !.n = Abs(a.n)]))
             IN  Rat(Sgn(a) * cents.n, 100)

\* a row of training_load as the table keeps it
TrainingLoadRow(atlArg, ctlArg, tsbArg) ==
    [atl |-> Numeric2(atlArg), ctl |-> Numeric2(ctlArg), tsb |-> Numeric2(tsbArg)]

\* the table after the row dated day is written
Put(table, day, row) ==
    [d \in (DOMAIN table) \cup {day} |-> IF d = day THEN row ELSE table[d]]

\* .order('date', { ascending: false }).limit(1).single()
LatestTrainingLoad(table) ==
    IF DOMAIN table = {} THEN NoRow
    ELSE LET last == CHOOSE d \in DOMAIN table : \A e \in DOMAIN table : e <= d
         IN  [found |-> TRUE, date |-> last, atl |-> table[last].atl,
              ctl |-> table[last].ctl, tsb |-> table[last].tsb]

\* .gte('workout_date', day).lt(day + 1)
WorkoutsOn(table, day) ==
    SelectSeq(table, LAMBDA w : day <= w.workout_date /\ w.workout_date < day + 1)

----------------------------------------------------------------------------
(* services/trainingMetricsService.js *)

TMS_calculateTRIMP(workout, userProfile) ==
    LET maxHR     == OrElse(userProfile.max_hr, Num(220 - 30))
        restingHR == OrElse(userProfile.resting_hr, Num(60))
    IN  IF Gt(workout.avg_hr, Num(0)) /\ Gt(workout.duration, Num(0))
        THEN LET durationMinutes == Div(workout.duration, Num(60))
                 hrReserve == Div(Sub(workout.avg_hr, restingHR), Sub(maxHR, restingHR))
             IN  IF Gt(hrReserve, Num(0))
                 THEN LET intensityFactor ==
                              Mul(Mul(hrReserve, Rat(64, 100)),
                                  MathExp(Mul(Rat(192, 100), hrReserve)))
                      IN  Mul(durationMinutes, intensityFactor)
                 ELSE Num(0)
        ELSE Num(0)

TMS_calculateATL(previousATL, todayTRIMP) ==
    Add(previousATL, Div(Sub(todayTRIMP, previousATL), Num(7)))

TMS_calculateCTL(previousCTL, todayTRIMP) ==
    Add(previousCTL, Div(Sub(todayTRIMP, previousCTL), Num(42)))

TMS_calculateTSB(ctlArg, atlArg) == Sub(ctlArg, atlArg)

\* for (const workout of todayWorkouts) todayTRIMP += calculateTRIMP(workout, profile)
RECURSIVE TMS_todayTRIMP(_, _, _, _)
TMS_todayTRIMP(todayWorkouts, i, profile, todayTRIMP) ==
    IF i > Len(todayWorkouts) THEN todayTRIMP
    ELSE TMS_todayTRIMP(todayWorkouts, i + 1, profile,
                        Add(todayTRIMP, TMS_calculateTRIMP(todayWorkouts[i], profile)))

\* the loop over the missing days: previousATL = calculateATL(previousATL, 0),
\* once for each i in 1..daysDiff
RECURSIVE TMS_decayATL(_, _)
TMS_decayATL(previousATL, daysDiff) ==
    IF daysDiff = 0 THEN previousATL
    ELSE TMS_decayATL(TMS_calculateATL(previousATL, Num(0)), daysDiff - 1)

RECURSIVE TMS_decayCTL(_, _)
TMS_decayCTL(previousCTL, daysDiff) ==
    IF daysDiff = 0 THEN previousCTL
    ELSE TMS_decayCTL(TMS_calculateCTL(previousCTL, Num(0)), daysDiff - 1)

\* updateTrainingLoad(userId): what it returns or throws, and the table after it.
\* error: some database request of the call fails; loadError: the request for
\* the latest row fails, or finds no row, which the code does not tell apart
TMS_updateTrainingLoad(profile, table, list, day, loadError, error) ==
    IF ~profile.found \/ error THEN [outcome |-> "threw", table |-> table]
    ELSE LET latestTrainingLoad == IF loadError THEN NoRow ELSE LatestTrainingLoad(table)
             previousATL == IF latestTrainingLoad.found
                            THEN OrElse(latestTrainingLoad.atl, Num(0)) ELSE Num(0)
             previousCTL == IF latestTrainingLoad.found
                            THEN OrElse(latestTrainingLoad.ctl, Num(0)) ELSE Num(0)
             lastDate == IF latestTrainingLoad.found THEN latestTrainingLoad.date ELSE day
             daysDiff == day - lastDate
             todayTRIMP == TMS_todayTRIMP(WorkoutsOn(list, day), 1, profile, Num(0))
         IN  IF daysDiff > 0
             THEN LET filledATL == TMS_calculateATL(TMS_decayATL(previousATL, daysDiff), todayTRIMP)
                      filledCTL == TMS_calculateCTL(TMS_decayCTL(previousCTL, daysDiff), todayTRIMP)
                      updatedTSB == TMS_calculateTSB(filledCTL, filledATL)
                  IN  [outcome |-> "data",
                       table |-> Put(table, lastDate + daysDiff,
                                     TrainingLoadRow(filledATL, filledCTL, updatedTSB))]
             ELSE IF daysDiff = 0 /\ latestTrainingLoad.found
             THEN LET updatedATL == TMS_calculateATL(previousATL, todayTRIMP)
                      updatedCTL == TMS_calculateCTL(previousCTL, todayTRIMP)
                      updatedTSB == TMS_calculateTSB(updatedCTL, updatedATL)
                  IN  [outcome |-> "data",
                       table |-> Put(table, latestTrainingLoad.date,
                                     TrainingLoadRow(updatedATL, updatedCTL, updatedTSB))]
             ELSE [outcome |-> "null", table |-> table]

----------------------------------------------------------------------------
(* SpecService: the training metrics service on its tables, day after day *)

LastDay == 1
MaxStored == 2
MaxCalls == 2

\* the user's profile row: absent, without heart rates, or with them
ServiceProfiles ==
    {NoRow,
     [found |-> TRUE, max_hr |-> Undefined, resting_hr |-> Undefined],
     [found |-> TRUE, max_hr |-> Num(190), resting_hr |-> Num(60)]}

\* training_load as the database holds it when the service starts: no row,
\* or one row dated day 0
StoredLoads ==
    {<<>>} \cup
    {[d \in {0} |-> TrainingLoadRow(Num(a), Num(a \div 2), Num((a \div 2) - a))] :
        a \in {0, 10}}

\* a session as extractWorkoutData reads it from a FIT file: 312.5 minutes,
\* with or without a heart rate
ServiceSessions ==
    {[duration |-> Num(18750), avg_hr |-> hr] : hr \in {Num(0), Num(125)}}

ServiceInit ==
    /\ calendarDay = 0
    /\ profiles \in ServiceProfiles
    /\ workoutsTable = <<>>
    /\ training_load \in StoredLoads
    /\ storeCall = NoStoreCall
    /\ uploads = <<>>
    /\ IdleExcept({"store"})

\* the calls of the service so far
CallsMade == IF storeCall.fn = "none" THEN 0 ELSE storeCall.calls

\* storeWorkoutData: a workout of today is inserted
StoreWorkoutData ==
    /\ Len(workoutsTable) < MaxStored
    /\ \E session \in ServiceSessions :
          workoutsTable' = Append(workoutsTable,
                                  [workout_date |-> calendarDay,
                                   duration |-> session.duration,
                                   avg_hr |-> session.avg_hr])
    /\ UNCHANGED <<calendarDay, profiles, training_load, storeCall, uploads, storeFrame>>

\* TrainingLoadChart mounts and awaits updateTrainingLoad(userId)
ServiceUpdateTrainingLoad ==
    /\ CallsMade < MaxCalls
    /\ \E loadError \in BOOLEAN, error \in BOOLEAN :
          LET done == TMS_updateTrainingLoad(profiles, training_load, workoutsTable,
                                             calendarDay, loadError, error)
          IN  /\ training_load' = done.table
              /\ storeCall' = [fn |-> "updateTrainingLoad", outcome |-> done.outcome,
                               before |-> training_load, day |-> calendarDay,
                               workouts |-> workoutsTable, calls |-> CallsMade + 1]
    /\ UNCHANGED <<calendarDay, profiles, workoutsTable, uploads, storeFrame>>

\* the date changes
Midnight ==
    /\ calendarDay < LastDay
    /\ calendarDay' = calendarDay + 1
    /\ UNCHANGED <<profiles, workoutsTable, training_load, storeCall, uploads, storeFrame>>

ServiceNext ==
    \/ StoreWorkoutData
    \/ ServiceUpdateTrainingLoad
    \/ Midnight

SpecService == ServiceInit /\ [][ServiceNext]_vars

----------------------------------------------------------------------------
(* Claims about the training metrics service (SpecService) *)

\* the last request was updateTrainingLoad and it did not throw
ServiceCompleted ==
    /\ storeCall.fn = "updateTrainingLoad"
    /\ storeCall.outcome # "threw"

\* C19: after updateTrainingLoad(userId) completes without error for a user
\* who has workouts but no training_load row yet, a training_load row dated
\* today exists for that user.
C19_ServiceStoresTodaysRow ==
    (/\ ServiceCompleted
     /\ storeCall.before = <<>>
     /\ storeCall.workouts # <<>>)
    => storeCall.day \in DOMAIN training_load

\* this step is a call of updateTrainingLoad that completes, made on the day
\* of the previous completed call and with the workouts as they were then
RepeatedServiceCall ==
    /\ ServiceCompleted
    /\ storeCall'.calls = storeCall.calls + 1
    /\ storeCall'.outcome # "threw"
    /\ storeCall.day = calendarDay
    /\ storeCall.workouts = workoutsTable

\* C24: updateTrainingLoad of the service is idempotent within a day: when it
\* is called again on the same day with the workouts unchanged, today's
\* atl, ctl and tsb stay what they were after the first call.
C24_ServiceIdempotentWithinDay ==
    [][(RepeatedServiceCall /\ calendarDay \in DOMAIN training_load)
       => /\ calendarDay \in DOMAIN training_load'
          /\ training_load'[calendarDay] = training_load[calendarDay]]_vars

\* the row the recurrence gives when it is applied once for each of the
\* daysDiff days since row latest: zero load for the days in between, the
\* day's own TRIMP for the last one
OncePerDayRow(latest, daysDiff, todayTRIMP) ==
    LET atlOnce == TMS_calculateATL(TMS_decayATL(OrElse(latest.atl, Num(0)), daysDiff - 1),
                                    todayTRIMP)
        ctlOnce == TMS_calculateCTL(TMS_decayCTL(OrElse(latest.ctl, Num(0)), daysDiff - 1),
                                    todayTRIMP)
    IN  TrainingLoadRow(atlOnce, ctlOnce, TMS_calculateTSB(ctlOnce, atlOnce))

\* C26: when the latest training_load row is d >= 1 days old, the service
\* applies the recurrence exactly d times, with zero load for the first d - 1
\* days and with today's summed TRIMP exactly once for today, and stores the
\* result as today's row.
C26_GapFilledOncePerDay ==
    (/\ ServiceCompleted
     /\ storeCall.outcome = "data"
     /\ storeCall.before # <<>>
     /\ LatestTrainingLoad(storeCall.before).date < storeCall.day)
    => /\ storeCall.day \in DOMAIN training_load
       /\ training_load[storeCall.day] =
              OncePerDayRow(LatestTrainingLoad(storeCall.before),
                            storeCall.day - LatestTrainingLoad(storeCall.before).date,
                            TMS_todayTRIMP(WorkoutsOn(storeCall.workouts, storeCall.day),
                                           1, profiles, Num(0)))

----------------------------------------------------------------------------
(* lib/supabase/functions/process-fit-file.ts *)

\* what a DECIMAL(6,2) column keeps of a number
Decimal2(x) == Numeric2(x)

\* the TRIMP the handler stores in workout_metrics
Fit_trimp(session) ==
    LET avgHr     == OrElse(session.avg_heart_rate, Num(0))
        userMaxHr == Num(220 - 30)
        hrRatio   == Div(avgHr, userMaxHr)
        duration  == Div(session.total_elapsed_time, Num(60))
        y         == Rat(192, 100)
    IN  Mul(Mul(Mul(duration, hrRatio), Rat(64, 100)), MathExp(Mul(y, hrRatio)))

\* the rows inserted into workouts and workout_metrics, as later selected with
\* workout_metrics (trimp)
Fit_workoutRow(session) ==
    [date |-> session.start_time,
     workout_metrics |-> [trimp |-> Decimal2(Fit_trimp(session))]]

\* the dates of dailyLoad: from 42 days back to today
Fit_window(day) == (day - 42)..day

\* workouts.forEach: the TRIMP of a workout is added to the entry of its date,
\* if dailyLoad has one
RECURSIVE Fit_forEach(_, _, _)
Fit_forEach(list, i, dailyLoad) ==
    IF i > Len(list) THEN dailyLoad
    ELSE Fit_forEach(list, i + 1,
             IF list[i].date \in DOMAIN dailyLoad
             THEN [dailyLoad EXCEPT ![list[i].date] =
                       Add(@, list[i].workout_metrics.trimp)]
             ELSE dailyLoad)

\* 1 - 1 / atlTimeConstant and 1 - 1 / ctlTimeConstant
Fit_atlKept == Sub(Num(1), Div(Num(1), Num(7)))
Fit_ctlKept == Sub(Num(1), Div(Num(1), Num(42)))

\* atl = day.trimp + atl * (1 - 1 / atlTimeConstant), and the same for ctl
Fit_step(load, trimp, kept) == Add(trimp, Mul(load, kept))

\* dailyLoad.map: the array trainingLoad, one entry for each day in date order
RECURSIVE Fit_map(_, _, _, _, _, _)
Fit_map(dailyLoad, d, day, atlArg, ctlArg, trainingLoad) ==
    IF d > day THEN trainingLoad
    ELSE LET atlNext == Fit_step(atlArg, dailyLoad[d], Fit_atlKept)
             ctlNext == Fit_step(ctlArg, dailyLoad[d], Fit_ctlKept)
             tsbNext == Sub(ctlNext, atlNext)
         IN  Fit_map(dailyLoad, d + 1, day, atlNext, ctlNext,
                     Append(trainingLoad,
                            [date |-> d, atl |-> atlNext, ctl |-> ctlNext,
                             tsb |-> tsbNext]))

\* for (const day of trainingLoad) upsert(day, { onConflict: "user_id, date" })
Fit_upsertAll(table, trainingLoad) ==
    LET first == trainingLoad[1].date
        dates == first..(first + Len(trainingLoad) - 1)
    IN  [d \in (DOMAIN table) \cup dates |->
            IF d \in dates
            THEN LET entry == trainingLoad[d - first + 1]
                 IN  TrainingLoadRow(entry.atl, entry.ctl, entry.tsb)
            ELSE table[d]]

\* updateTrainingLoad(supabase, userId) of the upload function: the table after it
Fit_updateTrainingLoad(list, table, day) ==
    LET dailyLoad == Fit_forEach(list, 1, [d \in Fit_window(day) |-> Num(0)])
    IN  Fit_upsertAll(table, Fit_map(dailyLoad, day - 42, day, Num(0), Num(0), <<>>))

----------------------------------------------------------------------------
(* SpecUpload: FIT files are uploaded to process-fit-file, day after day *)

\* the session of an uploaded FIT file: 312.5 minutes, started on a day up to
\* today, with or without a heart rate
FitSessions(day) ==
    {[start_time |-> d, total_elapsed_time |-> Num(18750), avg_heart_rate |-> hr] :
        d \in 0..day, hr \in {Undefined, Num(95), Num(152), Num(190)}}

UploadInit ==
    /\ calendarDay = 0
    /\ profiles = NoRow
    /\ workoutsTable = <<>>
    /\ training_load = <<>>
    /\ storeCall = NoStoreCall
    /\ uploads = <<>>
    /\ IdleExcept({"store"})

\* one request to process-fit-file: it fails before anything is stored
\* (status 401 or 500), or it stores the workout with its metrics and
\* rewrites the training load of the last 43 days (status 200)
ProcessFitFile ==
    /\ Len(workoutsTable) < MaxStored
    /\ \E session \in FitSessions(calendarDay), error \in BOOLEAN :
          IF error
          THEN /\ storeCall' = [fn |-> "process-fit-file", outcome |-> "error",
                                before |-> training_load, day |-> calendarDay,
                                workouts |-> workoutsTable]
               /\ UNCHANGED <<workoutsTable, training_load>>
          ELSE LET stored == Append(workoutsTable, Fit_workoutRow(session))
               IN  /\ workoutsTable' = stored
                   /\ training_load' = Fit_updateTrainingLoad(stored, training_load,
                                                              calendarDay)
                   /\ storeCall' = [fn |-> "process-fit-file", outcome |-> "success",
                                    before |-> training_load, day |-> calendarDay,
                                    workouts |-> stored]
    /\ UNCHANGED <<calendarDay, profiles, uploads, storeFrame>>

UploadNext ==
    \/ ProcessFitFile
    \/ Midnight

SpecUpload == UploadInit /\ [][UploadNext]_vars

----------------------------------------------------------------------------
(* Claims about the stored training load (SpecUpload) *)

\* the summed stored TRIMP of the workouts dated d
RECURSIVE StoredTrimp(_, _, _)
StoredTrimp(list, i, d) ==
    IF i > Len(list) THEN Num(0)
    ELSE Add(IF list[i].date = d THEN list[i].workout_metrics.trimp ELSE Num(0),
             StoredTrimp(list, i + 1, d))

\* yesterday + (trimp - yesterday) / timeConstant
DocumentedUpdate(yesterday, trimp, timeConstant) ==
    Add(yesterday, Div(Sub(trimp, yesterday), Num(timeConstant)))

\* x and y differ by no more than the two decimals the columns keep
SameStored(x, y) ==
    /\ Le(Sub(x, y), Rat(1, 100))
    /\ Le(Sub(y, x), Rat(1, 100))

\* C18: every daily update of the stored training load follows the documented
\* recurrence: the atl stored for a day is the atl stored for the day before
\* plus (TRIMP of the day - that atl) / 7, and the ctl likewise with 42, up to
\* the rounding of the stored columns.
C18_StoredLoadFollowsRecurrence ==
    \A d \in DOMAIN training_load :
        (d - 1) \in DOMAIN training_load =>
            LET trimp == StoredTrimp(workoutsTable, 1, d)
            IN  /\ SameStored(training_load[d].atl,
                              DocumentedUpdate(training_load[d - 1].atl, trimp, 7))
                /\ SameStored(training_load[d].ctl,
                              DocumentedUpdate(training_load[d - 1].ctl, trimp, 42))

----------------------------------------------------------------------------
(* SpecRerun: updateTrainingLoad of the upload function is run again and  *)
(* again on the stored workouts, which do not change, as the days pass     *)

\* the last date of a run: the first one whose 43-day window no longer
\* holds date 0
LaterDate == 43

\* the dates on which the function is run
RunDates == {0, 1, LaterDate}

\* the workouts the table holds: sessions of date 0
RECURSIVE StoredWorkouts(_)
StoredWorkouts(n) ==
    IF n = 0 THEN {<<>>}
    ELSE StoredWorkouts(n - 1) \cup
         {Append(list, Fit_workoutRow(session)) :
             list \in StoredWorkouts(n - 1), session \in FitSessions(0)}

RerunInit ==
    /\ calendarDay = 0
    /\ profiles = NoRow
    /\ workoutsTable \in StoredWorkouts(MaxStored)
    /\ training_load = <<>>
    /\ storeCall = NoStoreCall
    /\ uploads = <<>>
    /\ IdleExcept({"store"})

\* await updateTrainingLoad(supabase, user.id)
RunFitUpdateTrainingLoad ==
    /\ training_load' = Fit_updateTrainingLoad(workoutsTable, training_load,
                                               calendarDay)
    /\ storeCall' = [fn |-> "updateTrainingLoad", outcome |-> "success",
                     before |-> training_load, day |-> calendarDay,
                     workouts |-> workoutsTable]
    /\ UNCHANGED <<calendarDay, profiles, workoutsTable, uploads, storeFrame>>

\* the days until the next run pass
DaysPass ==
    /\ \E later \in RunDates :
          /\ later > calendarDay
          /\ calendarDay' = later
    /\ UNCHANGED <<profiles, workoutsTable, training_load, storeCall, uploads, storeFrame>>

RerunNext ==
    \/ RunFitUpdateTrainingLoad
    \/ DaysPass

SpecRerun == RerunInit /\ [][RerunNext]_vars

\* C27: with the workouts unchanged, running the upload function's
\* updateTrainingLoad again on a later date leaves the atl, ctl and tsb of
\* every earlier date as they were stored.
C27_EarlierDatesUnchanged ==
    (storeCall.fn = "updateTrainingLoad" /\ storeCall.before # <<>>)
    => \A d \in DOMAIN storeCall.before :
           d < storeCall.day => training_load[d] = storeCall.before[d]

----------------------------------------------------------------------------
(* SpecConcurrent: two requests of one user are served by process-fit-file *)
(* at the same time.  A request gives way at each await: after its workout *)
(* and metrics are inserted, after updateTrainingLoad has selected the     *)
(* workouts, and after its upserts (the 43 upserts are taken in one step). *)

MaxUploads == 2

ConcurrentInit ==
    /\ calendarDay = 0
    /\ profiles = NoRow
    /\ workoutsTable = <<>>
    /\ training_load = <<>>
    /\ storeCall = NoStoreCall
    /\ uploads \in [1..MaxUploads ->
                      {[pc |-> "received", session |-> session, trainingLoad |-> <<>>] :
                          session \in FitSessions(0)}]
    /\ IdleExcept({"store"})

\* supabase.from("workouts").insert(...), from("workout_metrics").insert(...)
InsertWorkout(r) ==
    /\ uploads[r].pc = "received"
    /\ workoutsTable' = Append(workoutsTable, Fit_workoutRow(uploads[r].session))
    /\ uploads' = [uploads EXCEPT ![r].pc = "stored"]
    /\ UNCHANGED <<calendarDay, profiles, training_load, storeCall, storeFrame>>

\* updateTrainingLoad: the workouts are selected, then dailyLoad and
\* trainingLoad are built from them
SelectWorkouts(r) ==
    /\ uploads[r].pc = "stored"
    /\ LET dailyLoad == Fit_forEach(workoutsTable, 1,
                                    [d \in Fit_window(calendarDay) |-> Num(0)])
       IN  uploads' = [uploads EXCEPT
                          ![r].pc = "selected",
                          ![r].trainingLoad =
                              Fit_map(dailyLoad, calendarDay - 42, calendarDay,
                                      Num(0), Num(0), <<>>)]
    /\ UNCHANGED <<calendarDay, profiles, workoutsTable, training_load, storeCall,
                   storeFrame>>

\* updateTrainingLoad: the upserts; then the handler responds with status 200
UpsertTrainingLoad(r) ==
    /\ uploads[r].pc = "selected"
    /\ training_load' = Fit_upsertAll(training_load, uploads[r].trainingLoad)
    /\ uploads' = [uploads EXCEPT ![r].pc = "responded"]
    /\ storeCall' = [fn |-> "process-fit-file", outcome |-> "success",
                     before |-> training_load, day |-> calendarDay,
                     workouts |-> workoutsTable]
    /\ UNCHANGED <<calendarDay, profiles, workoutsTable, storeFrame>>

ConcurrentNext ==
    \E r \in 1..MaxUploads :
        \/ InsertWorkout(r)
        \/ SelectWorkouts(r)
        \/ UpsertTrainingLoad(r)

SpecConcurrent == ConcurrentInit /\ [][ConcurrentNext]_vars

\* C25: when two requests of the same user run concurrently, then in every
\* interleaving of their database steps the training_load rows after both
\* have completed are the rows recomputed from all the workouts the two have
\* stored; no completed upload's workout is missing from them.
C25_FinalLoadCoversBothUploads ==
    (\A r \in 1..MaxUploads : uploads[r].pc = "responded")
    => /\ Len(workoutsTable) = MaxUploads
       /\ training_load = Fit_updateTrainingLoad(workoutsTable, training_load,
                                                 calendarDay)

----------------------------------------------------------------------------
(* components/training-load-chart.tsx: TrainingLoadChart renders the daily *)
(* series it is given, for the time range selected in its tabs             *)

TimeRanges == {"4w", "8w", "12w"}

daysToShow(timeRange) ==
    IF timeRange = "4w" THEN 28 ELSE IF timeRange = "8w" THEN 56 ELSE 84

NaNToZero(x) == IF isNaN(x) THEN Num(0) ELSE x

\* one rendering.  The loop variable i of the component runs from 7; entry m
\* of atlValues here is the component's atlValues[m - 1], pushed at i = m + 6,
\* and row j of chartData is the row pushed at i = j + 6
TrainingLoadChart(dailyTrimpValues, timeRange) ==
    LET relevantData == SliceLast(dailyTrimpValues, daysToShow(timeRange))
        older == Len(dailyTrimpValues) - Len(relevantData)
        pushed == IF Len(relevantData) >= 7 THEN Len(relevantData) - 6 ELSE 0
        dataUpToDay(i) == Arr(SubSeq(dailyTrimpValues, 1, older + i))
        atlValues == [m \in 1..pushed |-> calculateATL(dataUpToDay(m + 6))]
        ctlValues == [m \in 1..pushed |-> calculateCTL(dataUpToDay(m + 6))]
        tsbValues == [m \in 1..pushed |-> calculateTSB(ctlValues[m], atlValues[m])]
        rows == IF Len(relevantData) > 7 THEN Len(relevantData) - 7 ELSE 0
    IN  [timeRange |-> timeRange,
         chartData |-> [j \in 1..rows |->
                           [trimp |-> NaNToZero(relevantData[j + 7]),
                            atl |-> NaNToZero(atlValues[j]),
                            ctl |-> NaNToZero(ctlValues[j]),
                            tsb |-> NaNToZero(tsbValues[j])]],
         currentATL |-> IF pushed > 0 THEN NaNToZero(atlValues[pushed]) ELSE Num(0),
         currentCTL |-> IF pushed > 0 THEN NaNToZero(ctlValues[pushed]) ELSE Num(0),
         currentTSB |-> IF pushed > 0 THEN NaNToZero(tsbValues[pushed]) ELSE Num(0)]

\* the daily series the dashboard hands the chart
ChartSeries ==
    {Arr(s) : s \in SeqsUpTo(DailyValues, MaxSeriesLen)
                    \cup {TenDaySeries, FortyThreeDaySeries}}

\* the component mounts with the time range "8w"
ChartInit ==
    /\ series \in ChartSeries
    /\ loadCall = NoLoadCall
    /\ loadResult = Undefined
    /\ chart = TrainingLoadChart(series.items, "8w")
    /\ IdleExcept({"load"})

\* a tab is clicked: setTimeRange(value), and the component renders again
SetTimeRange ==
    /\ \E value \in TimeRanges : chart' = TrainingLoadChart(series.items, value)
    /\ UNCHANGED <<series, loadCall, loadResult, loadFrame>>

ChartNext == SetTimeRange

SpecChart == ChartInit /\ [][ChartNext]_vars

\* the index in the daily series of the day of row j of the chart
RowDay(j) ==
    Len(series.items) - Len(SliceLast(series.items, daysToShow(chart.timeRange))) + j + 7

\* C28: every row of the chart carries the atl, ctl and tsb computed from the
\* prefix of the daily series that ends at, and includes, the row's day; the
\* last row carries the ATL, CTL and TSB the header shows as current values.
C28_RowsUseSeriesUpToTheirDay ==
    /\ \A j \in DOMAIN chart.chartData :
          LET upToDay == Arr(SubSeq(series.items, 1, RowDay(j)))
              row == chart.chartData[j]
          IN  /\ row.atl = calculateATL(upToDay)
              /\ row.ctl = calculateCTL(upToDay)
              /\ row.tsb = calculateTSB(calculateCTL(upToDay), calculateATL(upToDay))
    /\ chart.chartData # <<>> =>
          LET last == chart.chartData[Len(chart.chartData)]
          IN  /\ last.atl = chart.currentATL
              /\ last.ctl = chart.currentCTL
              /\ last.tsb = chart.currentTSB

====
